---- MODULE Spec2Model ----
(***************************************************************************)
(* A model of the password-manager core:                                   *)
(*   - PasswordGeneratorService (generate / calculateEntropy /             *)
(*     estimateStrength), src/services/password/PasswordGeneratorService.ts*)
(*   - CryptoService (encryptBackup / decryptBackup /                      *)
(*     validateBackupPassword), src/services/crypto/CryptoService.ts       *)
(*   - the restore flow of SettingsScreen that consumes an envelope,       *)
(*     src/screens/SettingsScreen.tsx                                      *)
(*   - the option toggles and the length slider of GeneratorScreen,        *)
(*     src/screens/GeneratorScreen.tsx                                     *)
(*   - the PIN lock (PinLockScreen and the AppContent that mounts it),     *)
(*     src/screens/PinLockScreen.tsx                                       *)
(*   - AdMobService (loadInterstitial / showInterstitial and the ad        *)
(*     events), src/services/admob/AdMobService.ts                         *)
(*   - the form of AddAccountModal (validate / handleSave / handleClose)   *)
(*                                                                         *)
(* Strings are sequences of character codes (UTF-16 code units, all in the *)
(* basic plane), so that the character-class tests, the hex formatting and *)
(* the UTF-8 and Base64 conversions are computed and not assumed.          *)
(***************************************************************************)
EXTENDS Integers, Sequences, FiniteSets, TLC

VARIABLES pg, bk, ss, gs, lock, ad, form

vars == <<pg, bk, ss, gs, lock, ad, form>>

(***************************************************************************)
(* Bounds of the model.                                                    *)
(***************************************************************************)
\* Math.random() returns one of the RandDenom values k / RandDenom.
RandDenom == 2
\* Largest options.length handed to generate.
MaxLen == 4
\* Longest password handed to calculateEntropy / estimateStrength.
MaxPwLen == 16

(***************************************************************************)
(* Helpers on sequences and numbers.                                       *)
(***************************************************************************)
Max(a, b) == IF a >= b THEN a ELSE b

Min(a, b) == IF a <= b THEN a ELSE b

Range(s) == {s[i] : i \in 1..Len(s)}

\* 'A' = 65, 'a' = 97, '0' = 48.
Codes(first, n) == [i \in 1..n |-> first + i - 1]

(***************************************************************************)
(* PasswordGeneratorService                                                *)
(***************************************************************************)
\* '!@#$%^&*()_+-=[]{}|;:,.<>?`~'
SymbolCodes ==
  << 33, 64, 35, 36, 37, 94, 38, 42, 40, 41, 95, 43, 45, 61, 91, 93, 123, 125,
     124, 59, 58, 44, 46, 60, 62, 63, 96, 126 >>

CHAR_SETS ==
  [ uppercase |-> Codes(65, 26),
    lowercase |-> Codes(97, 26),
    numbers   |-> Codes(48, 10),
    symbols   |-> SymbolCodes ]

ENTROPY_CONSTANTS ==
  [ poolSizes |-> [lowercase |-> 26, uppercase |-> 26, numbers |-> 10, symbols |-> 32],
    strength  |-> [weak |-> 28, fair |-> 36, good |-> 60, strong |-> 80] ]

\* Math.floor(Math.random() * n) for the random value r / RandDenom.
RandomIndex(r, n) == (r * n) \div RandDenom

\* getRandomChar(chars): chars[Math.floor(Math.random() * chars.length)]
getRandomChar(chars, r) == chars[RandomIndex(r, Len(chars)) + 1]

\* The Fisher-Yates loop of shuffleString from index i (0-based) down to 1;
\* rs[k] is the random value of the iteration at index i.
RECURSIVE ShuffleFrom(_, _, _, _)
ShuffleFrom(array, i, rs, k) ==
  IF i <= 0 THEN array
  ELSE LET j == RandomIndex(rs[k], i + 1)
           swapped == [array EXCEPT ![i + 1] = array[j + 1], ![j + 1] = array[i + 1]]
       IN  ShuffleFrom(swapped, i - 1, rs, k + 1)

shuffleString(str, rs) == ShuffleFrom(str, Len(str) - 1, rs, 1)

\* The classes generate looks at, in the order of its four if statements.
ClassOrder == <<"lowercase", "uppercase", "numbers", "symbols">>

Included(options, class) ==
  CASE class = "lowercase" -> options.includeLowercase
    [] class = "uppercase" -> options.includeUppercase
    [] class = "numbers"   -> options.includeNumbers
    [] class = "symbols"   -> options.includeSymbols

\* The enabled classes in the order generate visits them.
EnabledClasses(options) == SelectSeq(ClassOrder, LAMBDA c : Included(options, c))

RECURSIVE ConcatSets(_)
ConcatSets(classes) ==
  IF classes = <<>> THEN <<>>
  ELSE CHAR_SETS[Head(classes)] \o ConcatSets(Tail(classes))

\* charPool after the four if statements.
CharPool(options) == ConcatSets(EnabledClasses(options))

\* Number of Math.random() calls of one generate(options).
NumDraws(options) ==
  LET n == Len(EnabledClasses(options))
      total == Max(n, options.length)
  IN  IF n = 0 THEN 0 ELSE total + Max(total - 1, 0)

\* The loop "for (i = requiredChars.length; i < length; i++) password += ..."
FillPassword(password, options, charPool, rs) ==
  LET n == Len(password)
  IN  password \o [i \in 1..Max(options.length - n, 0) |-> getRandomChar(charPool, rs[n + i])]

\* A generate that draws its first characters from the whole pool instead of
\* one from each class.
generatePoolOnly(options, rs) ==
  LET classes == EnabledClasses(options)
      charPool == CharPool(options)
      requiredChars == [i \in 1..Len(classes) |-> getRandomChar(charPool, rs[i])]
  IN  IF Len(charPool) = 0
      THEN [tag |-> "throw", error |-> "At least one character type must be selected",
            str |-> <<>>]
      ELSE LET password == FillPassword(requiredChars, options, charPool, rs)
               shuffleRs == [k \in 1..Max(Len(password) - 1, 0) |-> rs[Len(password) + k]]
           IN  [tag |-> "return", error |-> "", str |-> shuffleString(password, shuffleRs)]

\* A generate that also rejects a length smaller than the number of classes.
generateRejectsShort(options, rs) ==
  LET classes == EnabledClasses(options)
      charPool == CharPool(options)
      requiredChars == [i \in 1..Len(classes) |-> getRandomChar(CHAR_SETS[classes[i]], rs[i])]
  IN  IF Len(charPool) = 0 \/ options.length < Len(classes)
      THEN [tag |-> "throw", error |-> "At least one character type must be selected",
            str |-> <<>>]
      ELSE LET password == FillPassword(requiredChars, options, charPool, rs)
               shuffleRs == [k \in 1..Max(Len(password) - 1, 0) |-> rs[Len(password) + k]]
           IN  [tag |-> "return", error |-> "", str |-> shuffleString(password, shuffleRs)]

\* A generate that cuts its result to options.length characters.
generateTruncates(options, rs) ==
  LET classes == EnabledClasses(options)
      charPool == CharPool(options)
      requiredChars == [i \in 1..Len(classes) |-> getRandomChar(CHAR_SETS[classes[i]], rs[i])]
  IN  IF Len(charPool) = 0
      THEN [tag |-> "throw", error |-> "At least one character type must be selected",
            str |-> <<>>]
      ELSE LET password == FillPassword(requiredChars, options, charPool, rs)
               shuffleRs == [k \in 1..Max(Len(password) - 1, 0) |-> rs[Len(password) + k]]
               shuffled == shuffleString(password, shuffleRs)
           IN  [tag |-> "return", error |-> "",
                str |-> SubSeq(shuffled, 1, Min(Len(shuffled), Max(options.length, 0)))]

\* generate(options) with rs its successive random values.
generate(options, rs) ==
  LET classes == EnabledClasses(options)
      charPool == CharPool(options)
      requiredChars == [i \in 1..Len(classes) |-> getRandomChar(CHAR_SETS[classes[i]], rs[i])]
  IN  IF Len(charPool) = 0
      THEN [tag |-> "throw", error |-> "At least one character type must be selected",
            str |-> <<>>]
      ELSE LET password == FillPassword(requiredChars, options, charPool, rs)
               shuffleRs == [k \in 1..Max(Len(password) - 1, 0) |-> rs[Len(password) + k]]
           IN  [tag |-> "return", error |-> "", str |-> shuffleString(password, shuffleRs)]

\* /[a-z]/.test, /[A-Z]/.test, /[0-9]/.test, /[^a-zA-Z0-9]/.test
TestLower(password) == \E i \in 1..Len(password) : password[i] \in 97..122

TestUpper(password) == \E i \in 1..Len(password) : password[i] \in 65..90

TestDigit(password) == \E i \in 1..Len(password) : password[i] \in 48..57

TestOther(password) ==
  \E i \in 1..Len(password) : password[i] \notin (97..122) \cup (65..90) \cup (48..57)

\* Entropies are fixed-point numbers with Scale units per bit.
Scale == 1000000

\* Math.log2(n) in units of 1/Scale bit, rounded down, for the pool sizes
\* that sums of class sizes can give.
Log2Scaled(n) ==
  CASE n = 1  -> 0
    [] n = 10 -> 3321928
    [] n = 26 -> 4700439
    [] n = 32 -> 5000000
    [] n = 36 -> 5169925
    [] n = 42 -> 5392317
    [] n = 52 -> 5700439
    [] n = 58 -> 5857980
    [] n = 62 -> 5954196
    [] n = 64 -> 6000000
    [] n = 68 -> 6087462
    [] n = 84 -> 6392317
    [] n = 94 -> 6554588

\* A pool size whose last test is /[^a-z0-9]/, so that an uppercase letter
\* also counts as a symbol.
PoolSizeUpperAsSymbol(password) ==
    (IF TestLower(password) THEN ENTROPY_CONSTANTS.poolSizes.lowercase ELSE 0)
  + (IF TestUpper(password) THEN ENTROPY_CONSTANTS.poolSizes.uppercase ELSE 0)
  + (IF TestDigit(password) THEN ENTROPY_CONSTANTS.poolSizes.numbers ELSE 0)
  + (IF TestOther(password) \/ TestUpper(password)
       THEN ENTROPY_CONSTANTS.poolSizes.symbols ELSE 0)

\* A pool size whose last test is /[^a-zA-Z0-9\s]/, so that white space
\* belongs to no class.
PoolSizeSpaceInNoClass(password) ==
    (IF TestLower(password) THEN ENTROPY_CONSTANTS.poolSizes.lowercase ELSE 0)
  + (IF TestUpper(password) THEN ENTROPY_CONSTANTS.poolSizes.uppercase ELSE 0)
  + (IF TestDigit(password) THEN ENTROPY_CONSTANTS.poolSizes.numbers ELSE 0)
  + (IF \E i \in 1..Len(password) :
          password[i] \notin (97..122) \cup (65..90) \cup (48..57) \cup {9, 10, 13, 32}
       THEN ENTROPY_CONSTANTS.poolSizes.symbols ELSE 0)

PoolSize(password) ==
    (IF TestLower(password) THEN ENTROPY_CONSTANTS.poolSizes.lowercase ELSE 0)
  + (IF TestUpper(password) THEN ENTROPY_CONSTANTS.poolSizes.uppercase ELSE 0)
  + (IF TestDigit(password) THEN ENTROPY_CONSTANTS.poolSizes.numbers ELSE 0)
  + (IF TestOther(password) THEN ENTROPY_CONSTANTS.poolSizes.symbols ELSE 0)

calculateEntropy(password) ==
  IF password = <<>> THEN 0
  ELSE LET poolSize == PoolSize(password)
       IN  Len(password) * Log2Scaled(IF poolSize = 0 THEN 1 ELSE poolSize)

\* An if chain whose fourth test returns the tier below.
StrengthOfEntropyGoodBelowStrong(entropy) ==
  LET t == ENTROPY_CONSTANTS.strength
  IN  IF entropy < t.weak * Scale THEN "weak"
      ELSE IF entropy < t.fair * Scale THEN "fair"
      ELSE IF entropy < t.good * Scale THEN "good"
      ELSE IF entropy < t.strong * Scale THEN "good"
      ELSE "strong"

\* The if chain of estimateStrength on an entropy value.
StrengthOfEntropy(entropy) ==
  LET t == ENTROPY_CONSTANTS.strength
  IN  IF entropy < t.weak * Scale THEN "weak"
      ELSE IF entropy < t.fair * Scale THEN "fair"
      ELSE IF entropy < t.good * Scale THEN "good"
      ELSE IF entropy < t.strong * Scale THEN "strong"
      ELSE "strong"

estimateStrength(password) == StrengthOfEntropy(calculateEntropy(password))

(***************************************************************************)
(* The calls made on the PasswordGeneratorService singleton.               *)
(***************************************************************************)
LengthInputs == -1..MaxLen

OptionInputs ==
  [ length : LengthInputs, includeUppercase : BOOLEAN, includeLowercase : BOOLEAN,
    includeNumbers : BOOLEAN, includeSymbols : BOOLEAN ]

\* 'A', 'a', '1', '!'
ClassSamples == <<65, 97, 49, 33>>

\* Passwords of every length up to MaxPwLen that cycle through the samples
\* of a set of classes: "aaaa" and "Aa1!" are two of them.
PatternPasswords ==
  { [i \in 1..len |-> SelectSeq(ClassSamples, LAMBDA c : c \in S)[((i - 1) % Cardinality(S)) + 1]] :
      S \in (SUBSET Range(ClassSamples)) \ {{}}, len \in 0..MaxPwLen }

\* The ends of the three ranges, their neighbours, a space and a letter
\* outside ASCII: 'a' 'z' 'A' 'Z' '0' '9' '`' '{' '@' '[' '/' ':' ' ' 'e-acute'
EdgeChars == {97, 122, 65, 90, 48, 57, 96, 123, 64, 91, 47, 58, 32, 233}

EdgePasswords == {<<c>> : c \in EdgeChars} \cup {<<c, d>> : c, d \in EdgeChars}

PasswordInputs == PatternPasswords \cup EdgePasswords

NoOptions ==
  [ length |-> 0, includeUppercase |-> FALSE, includeLowercase |-> FALSE,
    includeNumbers |-> FALSE, includeSymbols |-> FALSE ]

NoResult == [tag |-> "none", error |-> "", str |-> <<>>]

PgIdle ==
  [ op |-> "idle", options |-> NoOptions, password |-> <<>>, out |-> NoResult,
    entropy |-> 0, strength |-> "" ]

CallGenerate ==
  /\ pg.op = "idle"
  /\ \E options \in OptionInputs :
       \E rs \in [1..NumDraws(options) -> 0..(RandDenom - 1)] :
         pg' = [PgIdle EXCEPT !.op = "generate", !.options = options,
                              !.out = generate(options, rs)]
  /\ UNCHANGED <<bk, ss, gs, lock, ad, form>>

CallCalculateEntropy ==
  /\ pg.op = "idle"
  /\ \E password \in PasswordInputs :
       pg' = [PgIdle EXCEPT !.op = "calculateEntropy", !.password = password,
                            !.entropy = calculateEntropy(password)]
  /\ UNCHANGED <<bk, ss, gs, lock, ad, form>>

CallEstimateStrength ==
  /\ pg.op = "idle"
  /\ \E password \in PasswordInputs :
       pg' = [PgIdle EXCEPT !.op = "estimateStrength", !.password = password,
                            !.strength = estimateStrength(password)]
  /\ UNCHANGED <<bk, ss, gs, lock, ad, form>>

\* A loop that stops before its last iteration (i > 1).
RECURSIVE ShuffleIndicesStopsEarly(_, _, _, _)
ShuffleIndicesStopsEarly(array, i, js, k) ==
  IF i <= 1 THEN array
  ELSE LET j == js[k]
           swapped == [array EXCEPT ![i + 1] = array[j + 1], ![j + 1] = array[i + 1]]
       IN  ShuffleIndicesStopsEarly(swapped, i - 1, js, k + 1)

\* The loop of shuffleString from index i (0-based) down to 1, js[k] being
\* the index j = Math.floor(Math.random() * (i + 1)) of its k-th iteration.
RECURSIVE ShuffleIndices(_, _, _, _)
ShuffleIndices(array, i, js, k) ==
  IF i <= 0 THEN array
  ELSE LET j == js[k]
           swapped == [array EXCEPT ![i + 1] = array[j + 1], ![j + 1] = array[i + 1]]
       IN  ShuffleIndices(swapped, i - 1, js, k + 1)

\* shuffleString(str) when its iterations draw the indices js.
shuffleStringAt(str, js) == ShuffleIndices(str, Len(str) - 1, js, 1)

\* Longest string handed to shuffleString on its own.
MaxShuffleLen == 4

\* The indices the iterations on a string of n characters can draw:
\* Math.random() is any number from 0 up to 1, so the k-th iteration, at
\* i = n - k, can draw any j from 0 to i.
IndexDraws(n) ==
  {js \in [1..Max(n - 1, 0) -> 0..Max(n - 1, 0)] : \A k \in 1..(n - 1) : js[k] <= n - k}

\* 'a', 'ab', 'abc', ... and 'b', 'ba', 'bab', ...
ShuffleInputs ==
  UNION { {[i \in 1..n |-> 96 + i], [i \in 1..n |-> 97 + (i % 2)]} : n \in 0..MaxShuffleLen }

\* shuffleString(str)
CallShuffleString ==
  /\ pg.op = "idle"
  /\ \E str \in ShuffleInputs :
       \E js \in IndexDraws(Len(str)) :
         pg' = [PgIdle EXCEPT !.op = "shuffleString", !.password = str,
                              !.out = [tag |-> "return", error |-> "",
                                       str |-> shuffleStringAt(str, js)]]
  /\ UNCHANGED <<bk, ss, gs, lock, ad, form>>

\* Default options with the symbols left out.
DefaultOptionsNoSymbols ==
  [ length |-> 16, includeUppercase |-> TRUE, includeLowercase |-> TRUE,
    includeNumbers |-> TRUE, includeSymbols |-> FALSE ]

DEFAULT_PASSWORD_OPTIONS ==
  [ length |-> 16, includeUppercase |-> TRUE, includeLowercase |-> TRUE,
    includeNumbers |-> TRUE, includeSymbols |-> TRUE ]

\* Runs of random values, <<m, c, d>> standing for the values
\* ((i * m + c) \div d) % RandDenom: alternating, in pairs, in triples, constant.
DrawRuns == {<<1, 0, 1>>, <<1, 1, 1>>, <<1, 0, 2>>, <<1, 0, 3>>, <<0, 0, 1>>, <<0, 1, 1>>}

\* Random values for a generate of the default options: every choice for the
\* draws of the required characters, and periodic runs for the draws that
\* fill the password and shuffle it.
DefaultDraws(options) ==
  LET n == NumDraws(options)
      required == Len(EnabledClasses(options))
      Run(p, i) == ((i * p[1] + p[2]) \div p[3]) % RandDenom
  IN  { [i \in 1..n |-> IF i <= required THEN first[i]
                        ELSE IF i <= Max(required, options.length) THEN Run(fill, i)
                        ELSE Run(shuffle, i)] :
          first \in [1..required -> 0..(RandDenom - 1)],
          fill \in DrawRuns, shuffle \in DrawRuns }

\* generate(DEFAULT_PASSWORD_OPTIONS), and calculateEntropy and
\* estimateStrength of the password it returned.
CallGenerateDefault ==
  /\ pg.op = "idle"
  /\ \E rs \in DefaultDraws(DEFAULT_PASSWORD_OPTIONS) :
       LET out == generate(DEFAULT_PASSWORD_OPTIONS, rs)
       IN  pg' = [PgIdle EXCEPT !.op = "generateDefault",
                                !.options = DEFAULT_PASSWORD_OPTIONS, !.out = out,
                                !.password = out.str,
                                !.entropy = calculateEntropy(out.str),
                                !.strength = estimateStrength(out.str)]
  /\ UNCHANGED <<bk, ss, gs, lock, ad, form>>

(***************************************************************************)
(* Bytes, hexadecimal, Base64 and UTF-8, as crypto-js and the code use     *)
(* them.                                                                   *)
(***************************************************************************)
Bytes == 0..255

RECURSIVE BitXor(_, _)
BitXor(a, b) ==
  IF a = 0 THEN b
  ELSE IF b = 0 THEN a
  ELSE 2 * BitXor(a \div 2, b \div 2) + ((a + b) % 2)

Take(s, n) == SubSeq(s, 1, Min(Max(n, 0), Len(s)))

Drop(s, n) == SubSeq(s, Min(Max(n, 0), Len(s)) + 1, Len(s))

\* s[i], or 0 past the end: a missing word of a WordArray reads as 0.
ByteAt(s, i) == IF i \in 1..Len(s) THEN s[i] ELSE 0

\* The concatenation of the sequences of seqs, by halves.
RECURSIVE Flatten(_)
Flatten(seqs) ==
  IF seqs = <<>> THEN <<>>
  ELSE IF Len(seqs) = 1 THEN seqs[1]
  ELSE LET h == Len(seqs) \div 2
       IN  Flatten(SubSeq(seqs, 1, h)) \o Flatten(SubSeq(seqs, h + 1, Len(seqs)))

\* The digits of Number.prototype.toString(16): '0'..'9', 'a'..'f'.
HexDigit(n) == IF n < 10 THEN 48 + n ELSE 87 + n

\* b.toString(16) for a byte b.
ToString16(b) == IF b < 16 THEN <<HexDigit(b)>> ELSE <<HexDigit(b \div 16), HexDigit(b % 16)>>

\* A byte printed without padStart.
PadStartNone(s) == s

\* s.padStart(2, '0')
PadStart2(s) == IF Len(s) < 2 THEN <<48>> \o s ELSE s

\* generateRandomHex(bytes), randomBytes[i] being Math.floor(Math.random() * 256)
\* of iteration i.
generateRandomHex(bytes, randomBytes) ==
  Flatten([i \in 1..bytes |-> PadStart2(ToString16(randomBytes[i]))])

\* parseInt of one hexadecimal digit; -1 stands for NaN.
HexValue(c) ==
  IF c \in 48..57 THEN c - 48
  ELSE IF c \in 97..102 THEN c - 87
  ELSE IF c \in 65..70 THEN c - 55
  ELSE -1

\* parseInt(hexStr.substr(i, 2), 16), NaN ending as 0 in the word.
ParseHexPair(hexStr, i) ==
  LET hi == HexValue(hexStr[i])
      lo == IF i + 1 <= Len(hexStr) THEN HexValue(hexStr[i + 1]) ELSE -1
  IN  IF hi < 0 THEN 0 ELSE IF lo < 0 THEN hi ELSE 16 * hi + lo

\* CryptoJS.enc.Hex.parse(hexStr): hexStr.length / 2 bytes.
HexParse(hexStr) == [k \in 1..(Len(hexStr) \div 2) |-> ParseHexPair(hexStr, 2 * k - 1)]

\* CryptoJS.enc.Utf8.parse on one UTF-16 code unit of the basic plane.
Utf8EncodeChar(c) ==
  IF c < 128 THEN <<c>>
  ELSE IF c < 2048 THEN <<192 + (c \div 64), 128 + (c % 64)>>
  ELSE <<224 + (c \div 4096), 128 + ((c \div 64) % 64), 128 + (c % 64)>>

\* CryptoJS.enc.Utf8.parse(str)
Utf8Parse(str) == Flatten([i \in 1..Len(str) |-> Utf8EncodeChar(str[i])])

IsCont(b) == b \in 128..191

\* The places in the second half of bytes where a character can start: the
\* byte after is not a continuation byte.
Utf8Splits(bytes) ==
  {h \in (Len(bytes) \div 2)..(Len(bytes) - 1) : h >= 1 /\ ~IsCont(bytes[h + 1])}

\* CryptoJS.enc.Utf8.stringify(bytes): decodeURIComponent(escape(latin1)),
\* which throws 'Malformed UTF-8 data' on anything but well-formed UTF-8.
\* A long text is decoded in two parts, cut where a character can start: no
\* well-formed character goes across such a place.
RECURSIVE Utf8Stringify(_)
Utf8Stringify(bytes) ==
  IF bytes = <<>> THEN [ok |-> TRUE, str |-> <<>>]
  ELSE IF Len(bytes) > 8 /\ Utf8Splits(bytes) # {}
  THEN
    LET h == CHOOSE x \in Utf8Splits(bytes) : \A y \in Utf8Splits(bytes) : x <= y
        a == Utf8Stringify(Take(bytes, h))
        b == Utf8Stringify(Drop(bytes, h))
    IN  IF a.ok /\ b.ok THEN [ok |-> TRUE, str |-> a.str \o b.str]
        ELSE [ok |-> FALSE, str |-> <<>>]
  ELSE
    LET b1 == bytes[1]
        b2 == ByteAt(bytes, 2)
        b3 == ByteAt(bytes, 3)
        b4 == ByteAt(bytes, 4)
        n  == IF b1 < 128 THEN 1
              ELSE IF b1 \in 194..223 /\ Len(bytes) >= 2 /\ IsCont(b2) THEN 2
              ELSE IF /\ b1 \in 224..239 /\ Len(bytes) >= 3 /\ IsCont(b2) /\ IsCont(b3)
                      /\ (b1 = 224 => b2 >= 160)
                      /\ (b1 = 237 => b2 < 160) THEN 3
              ELSE IF /\ b1 \in 240..244 /\ Len(bytes) >= 4
                      /\ IsCont(b2) /\ IsCont(b3) /\ IsCont(b4)
                      /\ (b1 = 240 => b2 >= 144)
                      /\ (b1 = 244 => b2 < 144) THEN 4
              ELSE 0
        units ==
          CASE n = 1 -> <<b1>>
            [] n = 2 -> <<(b1 - 192) * 64 + (b2 - 128)>>
            [] n = 3 -> <<(b1 - 224) * 4096 + (b2 - 128) * 64 + (b3 - 128)>>
            [] n = 4 ->
                 LET x == (b1 - 240) * 262144 + (b2 - 128) * 4096
                          + (b3 - 128) * 64 + (b4 - 128) - 65536
                 IN  <<55296 + (x \div 1024), 56320 + (x % 1024)>>
            [] OTHER -> <<>>
    IN  IF n = 0 THEN [ok |-> FALSE, str |-> <<>>]
        ELSE LET rest == Utf8Stringify(Drop(bytes, n))
             IN  IF rest.ok THEN [ok |-> TRUE, str |-> units \o rest.str]
                 ELSE [ok |-> FALSE, str |-> <<>>]

\* The Base64 alphabet of crypto-js: A-Z a-z 0-9 + /
Base64Char(v) ==
  IF v < 26 THEN 65 + v
  ELSE IF v < 52 THEN 97 + (v - 26)
  ELSE IF v < 62 THEN 48 + (v - 52)
  ELSE IF v = 62 THEN 43
  ELSE 47

\* reverseMap[c], an unknown character counting as 0 bits.
Base64Value(c) ==
  IF c \in 65..90 THEN c - 65
  ELSE IF c \in 97..122 THEN c - 97 + 26
  ELSE IF c \in 48..57 THEN c - 48 + 52
  ELSE IF c = 43 THEN 62
  ELSE IF c = 47 THEN 63
  ELSE 0

\* CryptoJS.enc.Base64.stringify(bytes): four characters per three bytes, a
\* character only while i + j * 0.75 < sigBytes, then '=' to a multiple of 4.
Base64Stringify(bytes) ==
  LET n == Len(bytes)
      Triplet(t) == ByteAt(bytes, 3 * t + 1) * 65536 + ByteAt(bytes, 3 * t + 2) * 256
                    + ByteAt(bytes, 3 * t + 3)
      Sextet(t, j) == (Triplet(t) \div (64 ^ (3 - j))) % 64
      Group(t) == SelectSeq([j \in 1..4 |-> IF 4 * (3 * t) + 3 * (j - 1) < 4 * n
                                            THEN Base64Char(Sextet(t, j - 1)) ELSE -1],
                            LAMBDA c : c >= 0)
      chars == Flatten([t \in 1..((n + 2) \div 3) |-> Group(t - 1)])
  IN  chars \o [k \in 1..((4 - (Len(chars) % 4)) % 4) |-> 61]

FirstPadding(str) ==
  IF \E i \in 1..Len(str) : str[i] = 61
  THEN CHOOSE i \in 1..Len(str) : str[i] = 61 /\ \A j \in 1..(i - 1) : str[j] # 61
  ELSE Len(str) + 1

\* CryptoJS.enc.Base64.parse(str): the characters before the first '=', one
\* byte for every position i with i % 4 # 0.
Base64Parse(str) ==
  LET len == FirstPadding(str) - 1
      positions == SelectSeq([i \in 1..len |-> i - 1], LAMBDA i : i % 4 # 0)
      ByteOf(i) ==
        LET bits1 == (Base64Value(str[i]) * (2 ^ ((i % 4) * 2))) % 256
            bits2 == Base64Value(str[i + 1]) \div (2 ^ (6 - (i % 4) * 2))
        IN  bits1 + bits2
  IN  [k \in 1..Len(positions) |-> ByteOf(positions[k])]

(***************************************************************************)
(* The cipher.  PBKDF2 and the AES block transformation are replaced by    *)
(* small stand-ins that keep what the module relies on: PBKDF2 is a        *)
(* function of the HMAC key (the password bytes, zero-padded to the block  *)
(* of the hash) and of the salt; the block transformation is a bijection   *)
(* of 16-byte blocks chosen by the key.  Padding, chaining, the OpenSSL    *)
(* text format and the text conversions are those of crypto-js.            *)
(***************************************************************************)
BlockBytes == 16

KeyBytes == 32

HmacBlockBytes == 64

RECURSIVE WeightedSum(_, _)
WeightedSum(bs, j) == IF j > Len(bs) THEN 0 ELSE j * bs[j] + WeightedSum(bs, j + 1)

\* The key HMAC works with: the password bytes, zero-padded.
HmacKey(password) ==
  LET bs == Utf8Parse(password)
  IN  [j \in 1..Max(HmacBlockBytes, Len(bs)) |-> ByteAt(bs, j)]

\* CryptoJS.PBKDF2(password, salt, {keySize: 256 / 32, iterations: 10000}):
\* the salt is a string and is taken as UTF-8 text.
PBKDF2(password, salt) ==
  LET k == WeightedSum(HmacKey(password), 1)
      t == WeightedSum(Utf8Parse(salt), 1)
  IN  [i \in 1..KeyBytes |-> (k * i + t * (i + 1) + i) % 256]

\* The block transformation under a key, and its inverse.
EncryptBlock(key, block) ==
  [i \in 1..BlockBytes |-> BitXor((block[i] + key[i]) % 256, key[BlockBytes + i])]

DecryptBlock(key, block) ==
  [i \in 1..BlockBytes |-> (BitXor(block[i], key[BlockBytes + i]) - key[i]) % 256]

XorBlock(block, prev) == [i \in 1..BlockBytes |-> BitXor(block[i], ByteAt(prev, i))]

BlockOf(bytes, b) == [i \in 1..BlockBytes |-> ByteAt(bytes, BlockBytes * (b - 1) + i)]

\* CryptoJS.pad.Pkcs7.pad
Pkcs7Pad(bytes) ==
  LET n == BlockBytes - (Len(bytes) % BlockBytes)
  IN  bytes \o [i \in 1..n |-> n]

\* CryptoJS.mode.CBC, encrypting: each block is xored with the block before
\* it (the IV for the first) and transformed.
RECURSIVE CbcEncrypt(_, _, _, _)
CbcEncrypt(key, bytes, b, prev) ==
  IF BlockBytes * (b - 1) >= Len(bytes) THEN <<>>
  ELSE LET c == EncryptBlock(key, XorBlock(BlockOf(bytes, b), prev))
       IN  c \o CbcEncrypt(key, bytes, b + 1, c)

\* CryptoJS.mode.CBC, decrypting; a last partial block is processed as a
\* whole block.
RECURSIVE CbcDecrypt(_, _, _, _)
CbcDecrypt(key, bytes, b, prev) ==
  IF BlockBytes * (b - 1) >= Len(bytes) THEN <<>>
  ELSE LET c == BlockOf(bytes, b)
       IN  XorBlock(DecryptBlock(key, c), prev) \o CbcDecrypt(key, bytes, b + 1, c)

\* 'Salted__'
OpenSSLMagic == <<83, 97, 108, 116, 101, 100, 95, 95>>

\* The default format of a cipher text, stringify: with a key that is not a
\* passphrase there is no salt, and the text is the Base64 of the cipher text.
OpenSSLStringify(ciphertext) == Base64Stringify(ciphertext)

\* The default format, parse: a cipher text that starts with 'Salted__' is
\* taken to carry eight bytes of salt, and these sixteen bytes are removed.
OpenSSLParse(str) ==
  LET ciphertext == Base64Parse(str)
  IN  IF Take(ciphertext, 8) = OpenSSLMagic THEN Drop(ciphertext, 16) ELSE ciphertext

\* AES.encrypt(data, key, {iv, mode: CBC, padding: Pkcs7}).toString()
AesEncrypt(data, key, iv) ==
  OpenSSLStringify(CbcEncrypt(key, Pkcs7Pad(Utf8Parse(data)), 1, iv))

\* CryptoJS.pad.Pkcs7.unpad: the low byte of the last word is the number of
\* bytes dropped; it is not compared with the padding.
Pkcs7Unpad(processed, sigBytes) ==
  LET n == IF sigBytes <= 0 THEN 0 ELSE ByteAt(processed, 4 * ((sigBytes - 1) \div 4) + 4)
  IN  Take(processed, sigBytes - n)

\* AES.decrypt(data, key, {iv, mode: CBC, padding: Pkcs7}): data is a string
\* and is parsed in the default format.
AesDecrypt(data, key, iv) ==
  LET ciphertext == OpenSSLParse(data)
  IN  Pkcs7Unpad(CbcDecrypt(key, ciphertext, 1, iv), Len(ciphertext))

(***************************************************************************)
(* CryptoService                                                           *)
(***************************************************************************)
\* An EncryptedBackup is a function from the names of the fields it has to
\* strings; a field that is not in its domain is undefined.
EnvelopeFields == {"data", "iv", "salt", "version"}

\* No envelope yet.
NoEnvelope == <<>>

\* '1.0'
Version10 == <<49, 46, 48>>

\* An encryptBackup whose cipher runs with a zero IV, not the one it returns.
encryptBackupIvUnused(data, password, saltBytes, ivBytes) ==
  LET salt == generateRandomHex(16, saltBytes)
      key == PBKDF2(password, salt)
      iv == generateRandomHex(16, ivBytes)
  IN  [ data    |-> AesEncrypt(data, key, [i \in 1..BlockBytes |-> 0]),
        iv      |-> iv,
        salt    |-> salt,
        version |-> <<49, 46, 48>> ]

\* encryptBackup(data, password), saltBytes and ivBytes being the bytes the
\* two generateRandomHex(16) calls draw.
encryptBackup(data, password, saltBytes, ivBytes) ==
  LET salt == generateRandomHex(16, saltBytes)
      key == PBKDF2(password, salt)
      iv == generateRandomHex(16, ivBytes)
  IN  [ data    |-> AesEncrypt(data, key, HexParse(iv)),
        iv      |-> iv,
        salt    |-> salt,
        version |-> Version10 ]

DecryptError == "Failed to decrypt backup. Please check your password."

\* A try block without the test of the decoded text.
DecryptTryReturnsEmpty(encryptedBackup, password) ==
  IF {"salt", "iv", "data"} \ DOMAIN encryptedBackup # {}
  THEN [tag |-> "throw", error |-> "TypeError", str |-> <<>>]
  ELSE
    LET key == PBKDF2(password, encryptedBackup.salt)
        decrypted == AesDecrypt(encryptedBackup.data, key, HexParse(encryptedBackup.iv))
        decryptedStr == Utf8Stringify(decrypted)
    IN  IF ~decryptedStr.ok
        THEN [tag |-> "throw", error |-> "Malformed UTF-8 data", str |-> <<>>]
        ELSE [tag |-> "return", error |-> "", str |-> decryptedStr.str]

\* The try block of decryptBackup: what it returns, or the error it throws.
DecryptTry(encryptedBackup, password) ==
  IF {"salt", "iv", "data"} \ DOMAIN encryptedBackup # {}
  THEN [tag |-> "throw", error |-> "TypeError", str |-> <<>>]
  ELSE
    LET key == PBKDF2(password, encryptedBackup.salt)
        decrypted == AesDecrypt(encryptedBackup.data, key, HexParse(encryptedBackup.iv))
        decryptedStr == Utf8Stringify(decrypted)
    IN  IF ~decryptedStr.ok
        THEN [tag |-> "throw", error |-> "Malformed UTF-8 data", str |-> <<>>]
        ELSE IF decryptedStr.str = <<>>
        THEN [tag |-> "throw", str |-> <<>>,
              error |-> "Decryption failed - invalid password or corrupted data"]
        ELSE [tag |-> "return", error |-> "", str |-> decryptedStr.str]

\* A decryptBackup whose catch clause throws the error it caught.
decryptBackupRethrows(encryptedBackup, password) ==
  LET try == DecryptTry(encryptedBackup, password)
  IN  IF try.tag = "throw"
      THEN [tag |-> "throw", error |-> try.error, str |-> <<>>,
            console |-> <<"Decryption error:", try.error>>]
      ELSE [tag |-> "return", error |-> "", str |-> try.str, console |-> <<>>]

\* decryptBackup(encryptedBackup, password): the catch clause logs the error
\* and throws one error for all of them.
decryptBackup(encryptedBackup, password) ==
  LET try == DecryptTry(encryptedBackup, password)
  IN  IF try.tag = "throw"
      THEN [tag |-> "throw", error |-> DecryptError, str |-> <<>>,
            console |-> <<"Decryption error:", try.error>>]
      ELSE [tag |-> "return", error |-> "", str |-> try.str, console |-> <<>>]

\* A validateBackupPassword without its try and catch.
validateBackupPasswordNoCatch(encryptedBackup, password) ==
  LET r == decryptBackup(encryptedBackup, password)
  IN  [tag |-> r.tag, value |-> TRUE, console |-> r.console]

\* validateBackupPassword(encryptedBackup, password)
validateBackupPassword(encryptedBackup, password) ==
  LET r == decryptBackup(encryptedBackup, password)
  IN  IF r.tag = "throw"
      THEN [tag |-> "return", value |-> FALSE, console |-> r.console]
      ELSE [tag |-> "return", value |-> TRUE, console |-> r.console]

(***************************************************************************)
(* The encrypted backup of SettingsScreen.                                 *)
(***************************************************************************)
\* Largest number of accounts in storage.
MaxAccounts == 2

\* The accounts are "a1" and "a2"; only their id is modelled.
AccountInputs == {"a1", "a2"}

\* What accountsStorage.get returns: null, or the array stored.
StoredInputs ==
  {[present |-> FALSE, accounts |-> <<>>]}
    \cup { [present |-> TRUE, accounts |-> accounts] :
             accounts \in UNION {[1..n -> AccountInputs] : n \in 0..MaxAccounts} }

\* '1.0.0'
PayloadVersion == << 49, 46, 48, 46, 48 >>

\* new Date().toISOString(): '2026-01-01T00:00:00.000Z'
NowIso ==
  << 50, 48, 50, 54, 45, 48, 49, 45, 48, 49, 84, 48, 48, 58, 48, 48, 58, 48,
     48, 46, 48, 48, 48, 90 >>

\* The digits of a number that is not negative.
RECURSIVE Decimal(_)
Decimal(n) == IF n < 10 THEN <<48 + n>> ELSE Decimal(n \div 10) \o <<48 + (n % 10)>>

\* A string in JSON (none of the strings modelled needs an escape).
JsonString(str) == <<34>> \o str \o <<34>>

\* Indentation, then '"key": '.
JsonMember(indent, key) == [i \in 1..indent |-> 32] \o JsonString(key) \o <<58, 32>>

\* JSON.stringify of an account inside the array, at four spaces:
\* '{' newline '      "id": "1"' newline '    }'
JsonAccount(account) ==
  <<123, 10>> \o JsonMember(6, <<105, 100>>)
    \o JsonString(IF account = "a1" THEN <<49>> ELSE <<50>>)
    \o <<10, 32, 32, 32, 32, 125>>

\* The elements of the array, separated by ',' and newline.
RECURSIVE JsonElements(_)
JsonElements(accounts) ==
  IF accounts = <<>> THEN <<>>
  ELSE <<32, 32, 32, 32>> \o JsonAccount(Head(accounts))
         \o (IF Tail(accounts) = <<>> THEN <<>> ELSE <<44, 10>> \o JsonElements(Tail(accounts)))

JsonArray(accounts) ==
  IF accounts = <<>> THEN <<91, 93>>
  ELSE <<91, 10>> \o JsonElements(accounts) \o <<10, 32, 32, 93>>

\* JSON.stringify(backupData, null, 2)
JsonStringifyBackup(backupData) ==
  <<123, 10>>
    \o JsonMember(2, <<118, 101, 114, 115, 105, 111, 110>>)
    \o JsonString(backupData.version) \o <<44, 10>>
    \o JsonMember(2, <<99, 114, 101, 97, 116, 101, 100, 65, 116>>)
    \o JsonString(backupData.createdAt) \o <<44, 10>>
    \o JsonMember(2, <<99, 111, 117, 110, 116>>)
    \o Decimal(backupData.count) \o <<44, 10>>
    \o JsonMember(2, <<97, 99, 99, 111, 117, 110, 116, 115>>)
    \o JsonArray(backupData.accounts)
    \o <<10, 125>>

\* The payloads JSON.parse can read back: any count with any accounts.
PayloadInputs ==
  { [version |-> PayloadVersion, createdAt |-> NowIso, count |-> c, accounts |-> x.accounts] :
      c \in 0..(MaxAccounts + 1), x \in StoredInputs }

\* A backupData whose count is one less than the number of accounts.
BackupDataCountShort(accounts, createdAt) ==
  [ version |-> PayloadVersion, createdAt |-> createdAt,
    count |-> Len(accounts) - 1, accounts |-> accounts ]

\* The backupData of handleEncryptedBackup.
BackupData(accounts, createdAt) ==
  [ version |-> PayloadVersion, createdAt |-> createdAt,
    count |-> Len(accounts), accounts |-> accounts ]

NoBackupData == [version |-> <<>>, createdAt |-> <<>>, count |-> -1, accounts |-> <<>>]

\* handleEncryptedBackup: the screen state it leaves, and what it built on
\* the way (made: backupData was built and encryptBackup called; written:
\* the file was written).
handleEncryptedBackup(s, stored, android, writeOk, saltBytes, ivBytes) ==
  LET none == [ s |-> s, made |-> FALSE, written |-> FALSE, backupData |-> NoBackupData,
                jsonString |-> <<>>, encrypted |-> NoEnvelope ]
  IN  IF Len(s.encryptPassword) < 4
      THEN [none EXCEPT !.s = [s EXCEPT !.alert = "Weak Password"]]
      ELSE IF s.encryptPassword # s.encryptConfirmPassword
      THEN [none EXCEPT !.s = [s EXCEPT !.alert = "Password Mismatch"]]
      ELSE IF ~stored.present \/ Len(stored.accounts) = 0
      THEN [none EXCEPT !.s = [s EXCEPT !.alert = "No Data"]]
      ELSE
        LET backupData == BackupData(stored.accounts, NowIso)
            jsonString == JsonStringifyBackup(backupData)
            encrypted == encryptBackup(jsonString, s.encryptPassword, saltBytes, ivBytes)
            made == [none EXCEPT !.made = TRUE, !.backupData = backupData,
                                 !.jsonString = jsonString, !.encrypted = encrypted]
        IN  IF ~android
            THEN [made EXCEPT !.s = [s EXCEPT !.alert = "Coming Soon"]]
            ELSE IF ~writeOk
            THEN [made EXCEPT !.s = [s EXCEPT !.alert = "Error",
                                              !.console = <<"Failed to write backup:">>]]
            ELSE [made EXCEPT !.written = TRUE,
                              !.s = [s EXCEPT !.encryptModalVisible = FALSE,
                                              !.encryptPassword = <<>>,
                                              !.encryptConfirmPassword = <<>>,
                                              !.alert = "Backup Complete",
                                              !.console = <<"Encrypted backup saved to:">>]]

(***************************************************************************)
(* The restore flow of SettingsScreen.                                     *)
(***************************************************************************)
\* What JSON.parse makes of a decrypted text, as far as handleRestoreBackup
\* looks at it: whether it parses, whether it has an array accounts, the
\* accounts and the count (-1: none).  Any other text is no JSON.
JsonParseBackup(str) ==
  CASE str = <<123, 34, 97, 99, 99, 111, 117, 110, 116, 115, 34, 58, 91, 93, 125>>
         -> [ok |-> TRUE, hasAccounts |-> TRUE, accounts |-> <<>>, count |-> -1]
    [] str = <<123, 125>>
         -> [ok |-> TRUE, hasAccounts |-> FALSE, accounts |-> <<>>, count |-> -1]
    [] str = <<34, 233, 34>>
         -> [ok |-> TRUE, hasAccounts |-> FALSE, accounts |-> <<>>, count |-> -1]
    [] str = <<123, 34, 99, 111, 117, 110, 116, 34, 58, 50, 44, 34, 97, 99, 99, 111,
               117, 110, 116, 115, 34, 58, 91, 123, 125, 93, 125>>
         -> [ok |-> TRUE, hasAccounts |-> TRUE, accounts |-> <<"{}">>, count |-> 2]
    [] \E backupData \in PayloadInputs : str = JsonStringifyBackup(backupData)
         -> LET backupData == CHOOSE x \in PayloadInputs : str = JsonStringifyBackup(x)
            IN  [ok |-> TRUE, hasAccounts |-> TRUE, accounts |-> backupData.accounts,
                 count |-> backupData.count]
    [] OTHER
         -> [ok |-> FALSE, hasAccounts |-> FALSE, accounts |-> <<>>, count |-> -1]

\* !encryptedBackup.f is false: the field is there and is not the empty string.
Truthy(encryptedBackup, f) == f \in DOMAIN encryptedBackup /\ encryptedBackup[f] # <<>>

\* A format check that does not look at the version.
BackupFormatOkNoVersion(encryptedBackup) ==
  /\ Truthy(encryptedBackup, "data")
  /\ Truthy(encryptedBackup, "iv")
  /\ Truthy(encryptedBackup, "salt")

\* The format check of handleRestoreBackup.
BackupFormatOk(encryptedBackup) ==
  /\ Truthy(encryptedBackup, "data")
  /\ Truthy(encryptedBackup, "iv")
  /\ Truthy(encryptedBackup, "salt")
  /\ Truthy(encryptedBackup, "version")

\* The catch clause of handleRestoreBackup.
RestoreCaught(s) ==
  [s EXCEPT !.alert = "Decryption Failed", !.console = <<"Restore error:">>]

\* A handleRestoreBackup that asks for the confirmation without looking at
\* backupData.accounts.
handleRestoreBackupNoStructureCheck(s0, file) ==
  IF ~s0.backupFilePath \/ Len(s0.decryptPassword) < 4
  THEN [s0 EXCEPT !.alert = "Invalid Input"]
  ELSE
    LET s == [s0 EXCEPT !.isDecrypting = TRUE]
    IN  IF ~file.readable \/ ~file.json
        THEN RestoreCaught(s)
        ELSE IF ~BackupFormatOk(file.envelope)
        THEN [s EXCEPT !.isDecrypting = FALSE, !.alert = "Invalid File"]
        ELSE
          LET decrypted == decryptBackup(file.envelope, s.decryptPassword)
              called == [s EXCEPT !.decryptCalled = TRUE]
              backupData == JsonParseBackup(decrypted.str)
          IN  IF decrypted.tag = "throw" \/ ~backupData.ok
              THEN RestoreCaught(called)
              ELSE [called EXCEPT !.isDecrypting = FALSE, !.alert = "Confirm Restore",
                                  !.confirm = TRUE, !.pending = backupData.accounts,
                                  !.pendingCount = backupData.count]

\* handleRestoreBackup up to its last alert; file is what RNFS.readFile and
\* JSON.parse make of the file chosen.
handleRestoreBackup(s0, file) ==
  IF ~s0.backupFilePath \/ Len(s0.decryptPassword) < 4
  THEN [s0 EXCEPT !.alert = "Invalid Input"]
  ELSE
    LET s == [s0 EXCEPT !.isDecrypting = TRUE]
    IN  IF ~file.readable \/ ~file.json
        THEN RestoreCaught(s)
        ELSE IF ~BackupFormatOk(file.envelope)
        THEN [s EXCEPT !.isDecrypting = FALSE, !.alert = "Invalid File"]
        ELSE
          LET decrypted == decryptBackup(file.envelope, s.decryptPassword)
              called == [s EXCEPT !.decryptCalled = TRUE]
              backupData == JsonParseBackup(decrypted.str)
          IN  IF decrypted.tag = "throw" \/ ~backupData.ok
              THEN RestoreCaught(called)
              ELSE IF ~backupData.hasAccounts
              THEN [called EXCEPT !.isDecrypting = FALSE, !.alert = "Invalid Backup"]
              ELSE [called EXCEPT !.isDecrypting = FALSE, !.alert = "Confirm Restore",
                                  !.confirm = TRUE, !.pending = backupData.accounts,
                                  !.pendingCount = backupData.count]

\* The onPress of the Restore button of the confirmation; stored tells
\* whether accountsStorage.set returned, which s.overwrites counts.
onPressRestore(s, stored) ==
  IF stored
  THEN [s EXCEPT !.confirm = FALSE, !.accounts = s.pending, !.overwrites = @ + 1,
                 !.decryptModalVisible = FALSE,
                 !.decryptPassword = <<>>, !.backupFilePath = FALSE, !.alert = "Success"]
  ELSE [s EXCEPT !.confirm = FALSE, !.alert = "Error", !.console = <<"Restore error:">>]

(***************************************************************************)
(* The calls made on CryptoService and the events of the restore flow.     *)
(***************************************************************************)
\* '{"accounts":[]}', '{}', '', '"e-acute"', '{"count":2,"accounts":[{}]}'
DataInputs ==
  { <<123, 34, 97, 99, 99, 111, 117, 110, 116, 115, 34, 58, 91, 93, 125>>,
    <<123, 125>>,
    <<>>,
    <<34, 233, 34>>,
    <<123, 34, 99, 111, 117, 110, 116, 34, 58, 50, 44, 34, 97, 99, 99, 111,
      117, 110, 116, 115, 34, 58, 91, 123, 125, 93, 125>> }

\* 'correct-horse'
CorrectHorse == <<99, 111, 114, 114, 101, 99, 116, 45, 104, 111, 114, 115, 101>>

\* 'wrong-horse'
WrongHorse == <<119, 114, 111, 110, 103, 45, 104, 111, 114, 115, 101>>

\* 'correct-horse', 'wrong-horse', 'correct-horse' followed by U+0000
PassphraseInputs == {CorrectHorse, WrongHorse, CorrectHorse \o <<0>>}

\* Sixteen values of Math.floor(Math.random() * 256): all 0, all 255,
\* 17, 34, 51, ...
RandomRuns ==
  { [i \in 1..16 |-> 0], [i \in 1..16 |-> 255], [i \in 1..16 |-> (17 * i) % 256] }

\* Math.random() can return any value, so any sixteen bytes can be drawn for
\* the IV; this is the IV for which the first block of the cipher text is
\* 'Salted__' followed by eight 0 bytes.
SaltedIv(data, password, saltBytes) ==
  LET key == PBKDF2(password, generateRandomHex(16, saltBytes))
      first == BlockOf(Pkcs7Pad(Utf8Parse(data)), 1)
      target == OpenSSLMagic \o [i \in 1..8 |-> 0]
  IN  XorBlock(DecryptBlock(key, target), first)

NoDecrypt == [tag |-> "none", error |-> "", str |-> <<>>, console |-> <<>>]

NoValidate == [tag |-> "none", value |-> FALSE, console |-> <<>>]

NoBytes == <<>>

BkIdle ==
  [ op |-> "idle", data |-> <<>>, password |-> <<>>, saltBytes |-> NoBytes,
    ivBytes |-> NoBytes, envelope |-> NoEnvelope, first |-> NoEnvelope,
    firstSaltBytes |-> NoBytes, firstIvBytes |-> NoBytes, edited |-> FALSE,
    json |-> TRUE, readable |-> TRUE, arg |-> <<>>, out |-> NoDecrypt, valid |-> NoValidate,
    made |-> FALSE, backupData |-> NoBackupData, log |-> <<>> ]

\* 'abc'
ShortPassword == <<97, 98, 99>>

SsIdle ==
  [ isDecrypting |-> FALSE, alert |-> "", console |-> <<>>, decryptModalVisible |-> TRUE,
    decryptPassword |-> <<>>, backupFilePath |-> FALSE, decryptCalled |-> FALSE,
    confirm |-> FALSE, pending |-> <<>>, pendingCount |-> -1, accounts |-> <<"old">>,
    handled |-> FALSE, overwrites |-> 0, encryptModalVisible |-> TRUE, encryptPassword |-> <<>>,
    encryptConfirmPassword |-> <<>> ]

\* encryptBackup(data, password)
CallEncryptBackup ==
  /\ bk.op = "idle"
  /\ \E data \in DataInputs, password \in PassphraseInputs, saltBytes \in RandomRuns :
       \E ivBytes \in RandomRuns \cup {SaltedIv(data, password, saltBytes)} :
         bk' = [BkIdle EXCEPT !.op = "encryptBackup", !.data = data, !.password = password,
                              !.saltBytes = saltBytes, !.ivBytes = ivBytes,
                              !.envelope = encryptBackup(data, password, saltBytes, ivBytes)]
  /\ UNCHANGED <<pg, ss, gs, lock, ad, form>>

\* A second encryptBackup(data, password) with the same arguments.
CallEncryptBackupAgain ==
  /\ bk.op = "encryptBackup"
  /\ \E saltBytes \in RandomRuns, ivBytes \in RandomRuns :
       bk' = [bk EXCEPT !.op = "encryptBackupAgain",
                        !.first = bk.envelope, !.firstSaltBytes = bk.saltBytes,
                        !.firstIvBytes = bk.ivBytes,
                        !.saltBytes = saltBytes, !.ivBytes = ivBytes,
                        !.envelope = encryptBackup(bk.data, bk.password, saltBytes, ivBytes)]
  /\ UNCHANGED <<pg, ss, gs, lock, ad, form>>

\* '2.0'
Version20 == <<50, 46, 48>>

\* 'zz'
NotHex == <<122, 122>>

\* The backup file is changed outside the application: a field is removed
\* or emptied, the version is another one, the iv or the salt is no
\* hexadecimal text, the first character of the data is replaced by '*', or
\* the file is no JSON any more.
EditFile ==
  /\ bk.op = "encryptBackup"
  /\ \/ \E f \in EnvelopeFields :
          bk' = [bk EXCEPT !.op = "fileEdited", !.edited = TRUE,
                           !.envelope = [g \in EnvelopeFields \ {f} |-> bk.envelope[g]]]
     \/ \E f \in EnvelopeFields :
          bk' = [bk EXCEPT !.op = "fileEdited", !.edited = TRUE,
                           !.envelope = [bk.envelope EXCEPT ![f] = <<>>]]
     \/ bk' = [bk EXCEPT !.op = "fileEdited", !.edited = TRUE,
                         !.envelope = [bk.envelope EXCEPT !.version = Version20]]
     \/ \E f \in {"iv", "salt"} :
          bk' = [bk EXCEPT !.op = "fileEdited", !.edited = TRUE,
                           !.envelope = [bk.envelope EXCEPT ![f] = NotHex]]
     \/ bk' = [bk EXCEPT !.op = "fileEdited", !.edited = TRUE,
                         !.envelope = [bk.envelope EXCEPT !.data = <<42>> \o Tail(@)]]
     \/ bk' = [bk EXCEPT !.op = "fileEdited", !.edited = TRUE, !.json = FALSE,
                         !.envelope = NoEnvelope]
  /\ UNCHANGED <<pg, ss, gs, lock, ad, form>>

\* The Create Backup button of the encrypt modal: handleEncryptedBackup with
\* the accounts in storage.  The file it writes can be restored afterwards.
HandleEncryptedBackup ==
  /\ bk.op = "idle"
  /\ \E password \in {CorrectHorse, ShortPassword}, confirm \in {CorrectHorse, ShortPassword},
        stored \in StoredInputs, android \in BOOLEAN, writeOk \in BOOLEAN,
        saltBytes \in RandomRuns, ivBytes \in RandomRuns :
       LET r == handleEncryptedBackup(
                  [ss EXCEPT !.encryptPassword = password, !.encryptConfirmPassword = confirm,
                             !.accounts = stored.accounts],
                  stored, android, writeOk, saltBytes, ivBytes)
       IN  /\ ss' = r.s
           /\ bk' = [BkIdle EXCEPT !.op = IF r.written THEN "backupWritten" ELSE "noBackup",
                                   !.made = r.made, !.backupData = r.backupData,
                                   !.data = r.jsonString, !.password = password,
                                   !.saltBytes = IF r.made THEN saltBytes ELSE NoBytes,
                                   !.ivBytes = IF r.made THEN ivBytes ELSE NoBytes,
                                   !.envelope = r.encrypted]
  /\ UNCHANGED <<pg, gs, lock, ad, form>>

\* decryptBackup(envelope, password)
CallDecryptBackup ==
  /\ bk.op \in {"encryptBackup", "fileEdited"}
  /\ bk.json
  /\ \E password \in PassphraseInputs :
       bk' = [bk EXCEPT !.op = "decryptBackup", !.arg = password,
                        !.out = decryptBackup(bk.envelope, password)]
  /\ UNCHANGED <<pg, ss, gs, lock, ad, form>>

\* validateBackupPassword(envelope, password)
CallValidateBackupPassword ==
  /\ bk.op \in {"encryptBackup", "fileEdited"}
  /\ bk.json
  /\ \E password \in PassphraseInputs :
       bk' = [bk EXCEPT !.op = "validateBackupPassword", !.arg = password,
                        !.valid = validateBackupPassword(bk.envelope, password)]
  /\ UNCHANGED <<pg, ss, gs, lock, ad, form>>

\* The Restore button of the decrypt modal: handleRestoreBackup on the file.
HandleRestoreBackup ==
  /\ bk.op \in {"encryptBackup", "fileEdited", "backupWritten"}
  /\ \E password \in PassphraseInputs \cup {ShortPassword}, chosen \in BOOLEAN,
        readable \in BOOLEAN :
       /\ ss' = [handleRestoreBackup(
                   [ss EXCEPT !.decryptPassword = password, !.backupFilePath = chosen],
                   [readable |-> readable, json |-> bk.json, envelope |-> bk.envelope])
                 EXCEPT !.handled = TRUE]
       /\ bk' = [bk EXCEPT !.op = "restore", !.readable = readable]
  /\ UNCHANGED <<pg, gs, lock, ad, form>>

\* The user presses Restore in the confirmation; accountsStorage.set may fail.
PressRestore ==
  /\ ss.confirm
  /\ \E stored \in BOOLEAN : ss' = onPressRestore(ss, stored)
  /\ UNCHANGED <<pg, bk, gs, lock, ad, form>>

\* The user presses Cancel in the confirmation.
PressCancel ==
  /\ ss.confirm
  /\ ss' = [ss EXCEPT !.confirm = FALSE]
  /\ UNCHANGED <<pg, bk, gs, lock, ad, form>>

(***************************************************************************)
(* Sequences of calls on CryptoService.  The three functions are           *)
(* synchronous, so calls do not overlap: a run of the module is a sequence *)
(* of whole calls.                                                         *)
(***************************************************************************)
\* Longest sequence of calls.
MaxCalls == 3

ZeroBytes == [i \in 1..16 |-> 0]

\* '{}'
CallData == { <<123, 125>> }

\* The envelopes handed to decryptBackup and validateBackupPassword: the
\* envelopes of '{}' under the two passphrases, and one without its salt.
CallEnvelopes ==
  LET made == {encryptBackup(<<123, 125>>, k, ZeroBytes, ZeroBytes) : k \in {CorrectHorse, WrongHorse}}
  IN  made \cup { [f \in {"data", "iv", "version"} |->
                      encryptBackup(<<123, 125>>, CorrectHorse, ZeroBytes, ZeroBytes)[f]] }

\* A call: the function and its arguments (for encryptBackup also the bytes
\* it draws from Math.random).
EncryptCalls ==
  { [fn |-> "encryptBackup", data |-> d, password |-> k, saltBytes |-> ZeroBytes,
     ivBytes |-> iv, envelope |-> NoEnvelope] :
      d \in CallData, k \in {CorrectHorse}, iv \in {ZeroBytes, [i \in 1..16 |-> 255]} }

DecryptCalls ==
  { [fn |-> "decryptBackup", data |-> <<>>, password |-> k, saltBytes |-> NoBytes,
     ivBytes |-> NoBytes, envelope |-> e] :
      e \in CallEnvelopes, k \in {CorrectHorse, WrongHorse} }

ValidateCalls ==
  { [fn |-> "validateBackupPassword", data |-> <<>>, password |-> k, saltBytes |-> NoBytes,
     ivBytes |-> NoBytes, envelope |-> e] :
      e \in CallEnvelopes, k \in {CorrectHorse} }

NoOutcome ==
  [tag |-> "none", error |-> "", str |-> <<>>, value |-> FALSE, envelope |-> NoEnvelope]

\* A module in which decryptBackup finds the key of the call before it.
CryptoCallKeepsKey(call, before) ==
  CASE call.fn = "encryptBackup"
         -> [NoOutcome EXCEPT !.tag = "return",
               !.envelope = encryptBackup(call.data, call.password, call.saltBytes, call.ivBytes)]
    [] call.fn = "decryptBackup"
         -> LET k == IF before = <<>> THEN call.password
                     ELSE before[Len(before)].call.password
                r == decryptBackup(call.envelope, k)
            IN  [NoOutcome EXCEPT !.tag = r.tag, !.error = r.error, !.str = r.str]
    [] call.fn = "validateBackupPassword"
         -> LET r == validateBackupPassword(call.envelope, call.password)
            IN  [NoOutcome EXCEPT !.tag = r.tag, !.value = r.value]

\* The outcome of a call made after the calls of before.  The module has no
\* binding that outlives a call (its functions have const locals only), so
\* nothing of before is read.
CryptoCall(call, before) ==
  CASE call.fn = "encryptBackup"
         -> [NoOutcome EXCEPT !.tag = "return",
               !.envelope = encryptBackup(call.data, call.password, call.saltBytes, call.ivBytes)]
    [] call.fn = "decryptBackup"
         -> LET r == decryptBackup(call.envelope, call.password)
            IN  [NoOutcome EXCEPT !.tag = r.tag, !.error = r.error, !.str = r.str]
    [] call.fn = "validateBackupPassword"
         -> LET r == validateBackupPassword(call.envelope, call.password)
            IN  [NoOutcome EXCEPT !.tag = r.tag, !.value = r.value]

Logged(call) ==
  /\ Len(bk.log) < MaxCalls
  /\ bk' = [bk EXCEPT !.log = Append(@, [call |-> call, outcome |-> CryptoCall(call, bk.log)])]
  /\ UNCHANGED <<pg, ss, gs, lock, ad, form>>

NextEncryptBackup == \E call \in EncryptCalls : Logged(call)

NextDecryptBackup == \E call \in DecryptCalls : Logged(call)

NextValidateBackupPassword == \E call \in ValidateCalls : Logged(call)

(***************************************************************************)
(* GeneratorScreen.  The component keeps options and password in React     *)
(* state.  A handler made by useCallback reads the options of the render   *)
(* that made it, while an updater given to setOptions is applied to the    *)
(* latest state: gs.options is the state, gs.rendered the options of the   *)
(* last render.                                                            *)
(***************************************************************************)
OPTION_ITEMS == <<"includeUppercase", "includeLowercase", "includeNumbers", "includeSymbols">>

\* Object.entries(options).filter(([k, v]) => k.startsWith('include') && v === true)
selectedOptions(options) == SelectSeq(OPTION_ITEMS, LAMBDA k : options[k])

\* toggleOption(key) in a render that saw rendered, the state being options.
toggleOption(rendered, options, key) ==
  IF rendered[key] /\ Len(selectedOptions(rendered)) <= 1
  THEN [options |-> options, alert |-> "Cannot Deselect"]
  ELSE [options |-> [options EXCEPT ![key] = ~options[key]], alert |-> ""]

\* Slider values in tenths: 8, 8.4, 15.5 and 16.
SliderValues == {80, 84, 155, 160}

\* Math.round of a value given in tenths.
MathRound(tenths) == (tenths + 5) \div 10

\* handleLengthChange(value)
handleLengthChange(options, tenths) == [options EXCEPT !.length = MathRound(tenths)]

\* The random values of a generate on the screen: all 0, or 0 and the
\* largest value in turn.
ScreenDraws(options) ==
  { [i \in 1..NumDraws(options) |-> (i * m) % RandDenom] : m \in {0, 1} }

\* generatePassword() in a render that saw rendered.
generatePassword(s, rs) ==
  LET generated == generate(s.rendered, rs)
  IN  IF generated.tag = "throw"
      THEN [s EXCEPT !.alert = "Error"]
      ELSE [s EXCEPT !.password = generated.str, !.alert = ""]

GsIdle ==
  [ options |-> DEFAULT_PASSWORD_OPTIONS, rendered |-> DEFAULT_PASSWORD_OPTIONS,
    password |-> <<>>, alert |-> "" ]

\* An option row is pressed.
ToggleOption ==
  /\ \E key \in Range(OPTION_ITEMS) :
       LET r == toggleOption(gs.rendered, gs.options, key)
       IN  gs' = [gs EXCEPT !.options = r.options, !.alert = r.alert]
  /\ UNCHANGED <<pg, bk, ss, lock, ad, form>>

\* The slider is moved.
HandleLengthChange ==
  /\ \E tenths \in SliderValues :
       gs' = [gs EXCEPT !.options = handleLengthChange(gs.options, tenths)]
  /\ UNCHANGED <<pg, bk, ss, lock, ad, form>>

\* The component renders again with the state it has.
RenderGenerator ==
  /\ gs.rendered # gs.options
  /\ gs' = [gs EXCEPT !.rendered = gs.options]
  /\ UNCHANGED <<pg, bk, ss, lock, ad, form>>

\* The effect of the mount, or the Generate button.
GeneratePassword ==
  /\ \E rs \in ScreenDraws(gs.rendered) : gs' = generatePassword(gs, rs)
  /\ UNCHANGED <<pg, bk, ss, lock, ad, form>>

(***************************************************************************)
(* The lock of the application: AppContent loads the PIN and shows         *)
(* PinLockScreen while isLocked and storedPin are set.  The handlers of    *)
(* PinLockScreen read the pin, error and showHint of the render that made  *)
(* them (lock.rendered).                                                   *)
(***************************************************************************)
\* Timers of handleSubmit that can be pending together.
MaxTimers == 2

\* No PIN: null.
NoPin == <<>>

\* '1234'
Pin1234 == <<49, 50, 51, 52>>

\* What onChangeText can hand over: '', '12', '1234', '1235', '12a45',
\* '12345'.
TypedTexts ==
  { <<>>, <<49, 50>>, Pin1234, <<49, 50, 51, 53>>, <<49, 50, 97, 52, 53>>,
    <<49, 50, 51, 52, 53>> }

\* value.replace(/\D/g, '')
DigitsOnly(value) == SelectSeq(value, LAMBDA c : c \in 48..57)

LockIdle ==
  [ stored |-> NoPin, isLoadingPin |-> TRUE, isLocked |-> TRUE, storedPin |-> NoPin,
    pin |-> <<>>, isLoading |-> FALSE, error |-> "", showHint |-> FALSE,
    rendered |-> [pin |-> <<>>, error |-> "", showHint |-> FALSE],
    unlockTimers |-> 0, errorTimers |-> 0, unlockCalls |-> 0, submittedStoredPin |-> FALSE ]

\* PinLockScreen is on the screen.
LockShown == ~lock.isLoadingPin /\ lock.isLocked /\ lock.storedPin # NoPin

\* A handleSubmit that unlocks for any PIN of four characters.
handleSubmitAnyPin(s) ==
  IF Len(s.rendered.pin) # 4
  THEN [s EXCEPT !.error = "PIN must be 4 digits"]
  ELSE [s EXCEPT !.isLoading = TRUE, !.error = "", !.unlockTimers = @ + 1]

\* handleSubmit() up to its return; the timers it sets are counted.
handleSubmit(s) ==
  IF Len(s.rendered.pin) # 4
  THEN [s EXCEPT !.error = "PIN must be 4 digits"]
  ELSE IF s.storedPin = NoPin \/ s.rendered.pin = s.storedPin
  THEN [s EXCEPT !.isLoading = TRUE, !.error = "", !.unlockTimers = @ + 1]
  ELSE [s EXCEPT !.isLoading = FALSE, !.error = "Incorrect PIN", !.errorTimers = @ + 1]

\* The effect of the mount of AppContent: accountsStorage.get returns the
\* PIN that handlePinSubmit stored, or null when there is none.
LoadPinSetting ==
  /\ lock.isLoadingPin
  /\ \E pin \in {NoPin, Pin1234} :
       lock' = [lock EXCEPT !.stored = pin, !.storedPin = pin,
                            !.isLocked = IF pin = NoPin THEN FALSE ELSE @,
                            !.isLoadingPin = FALSE]
  /\ UNCHANGED <<pg, bk, ss, gs, ad, form>>

\* handlePinChange(value)
HandlePinChange ==
  /\ LockShown
  /\ \E value \in TypedTexts :
       lock' = [lock EXCEPT !.error = IF lock.rendered.error # "" THEN "" ELSE @,
                            !.pin = DigitsOnly(value),
                            !.showHint = IF lock.rendered.showHint THEN FALSE ELSE @]
  /\ UNCHANGED <<pg, bk, ss, gs, ad, form>>

\* toggleHint()
ToggleHint ==
  /\ LockShown
  /\ lock' = [lock EXCEPT !.showHint = ~lock.rendered.showHint]
  /\ UNCHANGED <<pg, bk, ss, gs, ad, form>>

\* The Unlock button or the return key: handleSubmit().
HandleSubmit ==
  /\ LockShown
  /\ lock.unlockTimers + lock.errorTimers < MaxTimers
  /\ lock' = [handleSubmit(lock) EXCEPT
                !.submittedStoredPin = @ \/ lock.rendered.pin = lock.storedPin]
  /\ UNCHANGED <<pg, bk, ss, gs, ad, form>>

\* PinLockScreen renders again with the state it has.
RenderLock ==
  /\ LockShown
  /\ lock.rendered # [pin |-> lock.pin, error |-> lock.error, showHint |-> lock.showHint]
  /\ lock' = [lock EXCEPT !.rendered = [pin |-> lock.pin, error |-> lock.error,
                                        showHint |-> lock.showHint]]
  /\ UNCHANGED <<pg, bk, ss, gs, ad, form>>

\* The timer of a successful handleSubmit: onUnlock, which is handleUnlock.
UnlockTimer ==
  /\ lock.unlockTimers > 0
  /\ lock' = [lock EXCEPT !.unlockTimers = @ - 1, !.isLoading = FALSE,
                          !.unlockCalls = 1, !.isLocked = FALSE]
  /\ UNCHANGED <<pg, bk, ss, gs, ad, form>>

\* The timer of a failed handleSubmit: setError('').
ErrorTimer ==
  /\ lock.errorTimers > 0
  /\ lock' = [lock EXCEPT !.errorTimers = @ - 1, !.error = ""]
  /\ UNCHANGED <<pg, bk, ss, gs, ad, form>>

(***************************************************************************)
(* AdMobService.  showInterstitial awaits interstitial.show(): between the *)
(* call of show() and the statements after the await, other calls and the  *)
(* listeners of the ad run.  The ad library is given by what it may do: a  *)
(* load ends with LOADED or ERROR, an ad that was shown is CLOSED, and a    *)
(* show() that was called is resolved or rejected at some later time.      *)
(***************************************************************************)
COOLDOWN_MS == 30000

\* Calls of interstitial.show() in a run.
MaxShows == 2

\* Steps of the clock in a run.
MaxTicks == 4

\* The clock moves in steps of a third of the cooldown.
TickMs == COOLDOWN_MS \div 3

\* Date.now() when the service is constructed.
StartTime == 4 * COOLDOWN_MS

NoCall == [at |-> 0, sinceLast |-> 0, calledShow |-> FALSE, result |-> "none"]

AdIdle ==
  [ isLoaded |-> FALSE, isLoading |-> FALSE, lastAdShownTime |-> 0, now |-> StartTime,
    loadPending |-> FALSE, loadedWhilePending |-> FALSE, adReady |-> FALSE,
    displayed |-> FALSE, pendingShows |-> <<>>, trueShows |-> <<>>, last |-> NoCall ]

\* loadInterstitial() up to the call of interstitial.load().
loadInterstitial(s) ==
  IF s.isLoaded \/ s.isLoading THEN s
  ELSE [s EXCEPT !.isLoading = TRUE, !.loadPending = TRUE,
                 !.loadedWhilePending = @ \/ s.loadPending]

\* The effect of the mount of AppContent: adMobService.loadInterstitial().
LoadInterstitial ==
  /\ ad' = loadInterstitial(ad)
  /\ UNCHANGED <<pg, bk, ss, gs, lock, form>>

\* showInterstitial() up to its first return or to its await.
ShowInterstitial ==
  /\ Len(ad.pendingShows) + Len(ad.trueShows) < MaxShows
  /\ LET timeSinceLastAd == ad.now - ad.lastAdShownTime
         call == [at |-> ad.now, sinceLast |-> timeSinceLastAd, calledShow |-> FALSE,
                  result |-> "false"]
     IN  IF timeSinceLastAd < COOLDOWN_MS \/ ~ad.isLoaded
         THEN ad' = [ad EXCEPT !.last = call]
         ELSE ad' = [ad EXCEPT !.last = [call EXCEPT !.calledShow = TRUE, !.result = "pending"],
                               !.pendingShows = Append(@, ad.now),
                               !.displayed = TRUE, !.adReady = FALSE]
  /\ UNCHANGED <<pg, bk, ss, gs, lock, form>>

\* A show() is resolved: the statements after the await, and return true.
ShowResolved ==
  /\ \E i \in 1..Len(ad.pendingShows) :
       ad' = [ad EXCEPT !.isLoaded = FALSE, !.lastAdShownTime = ad.now,
                        !.trueShows = Append(@, ad.pendingShows[i]),
                        !.pendingShows = SubSeq(@, 1, i - 1) \o SubSeq(@, i + 1, Len(@))]
  /\ UNCHANGED <<pg, bk, ss, gs, lock, form>>

\* A show() is rejected: the catch clause, and return false.
ShowRejected ==
  /\ \E i \in 1..Len(ad.pendingShows) :
       ad' = [ad EXCEPT !.pendingShows = SubSeq(@, 1, i - 1) \o SubSeq(@, i + 1, Len(@))]
  /\ UNCHANGED <<pg, bk, ss, gs, lock, form>>

\* The listener of LOADED.
AdLoaded ==
  /\ ad.loadPending
  /\ ad' = [ad EXCEPT !.isLoaded = TRUE, !.isLoading = FALSE, !.loadPending = FALSE,
                      !.adReady = TRUE]
  /\ UNCHANGED <<pg, bk, ss, gs, lock, form>>

\* The listener of CLOSED, which loads the next ad.
AdClosed ==
  /\ ad.displayed
  /\ ad' = loadInterstitial([ad EXCEPT !.isLoaded = FALSE, !.displayed = FALSE,
                                      !.adReady = FALSE])
  /\ UNCHANGED <<pg, bk, ss, gs, lock, form>>

\* The listener of ERROR, for a load that failed.
AdError ==
  /\ ad.loadPending
  /\ ad' = [ad EXCEPT !.isLoaded = FALSE, !.isLoading = FALSE, !.loadPending = FALSE,
                      !.adReady = FALSE]
  /\ UNCHANGED <<pg, bk, ss, gs, lock, form>>

\* Time passes: Date.now() is larger at the next call.
Tick ==
  /\ ad.now < StartTime + MaxTicks * TickMs
  /\ ad' = [ad EXCEPT !.now = @ + TickMs]
  /\ UNCHANGED <<pg, bk, ss, gs, lock, form>>

(***************************************************************************)
(* AddAccountModal.  validate and handleSave read the name, username and   *)
(* password of the render that made them (form.rendered); the text inputs  *)
(* set the state.                                                          *)
(***************************************************************************)
\* White space of String.prototype.trim among the characters used: tab,
\* line feed, carriage return, space, no-break space.
WhiteSpace == {9, 10, 13, 32, 160}

\* str.trim()
RECURSIVE Trim(_)
Trim(str) ==
  IF str = <<>> THEN <<>>
  ELSE IF Head(str) \in WhiteSpace THEN Trim(Tail(str))
  ELSE IF str[Len(str)] \in WhiteSpace THEN Trim(SubSeq(str, 1, Len(str) - 1))
  ELSE str

\* '', ' ', ' a '
NameTexts == { <<>>, <<32>>, <<32, 97, 32>> }

\* '', eight spaces, '1234567', '12345678', ' 1234567', ' 12345678 '
PasswordTexts ==
  { <<>>, [i \in 1..8 |-> 32], Codes(49, 7), Codes(49, 8), <<32>> \o Codes(49, 7),
    <<32>> \o Codes(49, 8) \o <<32>> }

NoFields == [name |-> <<>>, username |-> <<>>, password |-> <<>>]

\* The form after resetForm(), with the modal on the screen.
FormIdle ==
  [ visible |-> TRUE, fields |-> NoFields, rendered |-> NoFields, errors |-> <<>>,
    validated |-> "none", saveCalls |-> 0, saved |-> NoFields ]

\* The newErrors of validate(): the keys with their messages, in the order
\* they were first set.
validate(f) ==
  LET e1 == IF Trim(f.name) = <<>> THEN << <<"name", "Account name is required">> >> ELSE <<>>
      e2 == IF Trim(f.username) = <<>>
            THEN << <<"username", "Username is required">> >> ELSE <<>>
      e3 == IF Len(f.password) < 8
            THEN << <<"password", "Password must be at least 8 characters">> >>
            ELSE IF Trim(f.password) = <<>>
            THEN << <<"password", "Password is required">> >> ELSE <<>>
  IN  e1 \o e2 \o e3

\* handleSave(): validate(), then onSave, resetForm and onClose.
handleSave(s) ==
  LET newErrors == validate(s.rendered)
  IN  IF newErrors # <<>>
      THEN [s EXCEPT !.errors = newErrors, !.validated = "failed"]
      ELSE [s EXCEPT !.validated = "passed", !.saveCalls = @ + 1,
                     !.saved = [name |-> Trim(s.rendered.name),
                                username |-> Trim(s.rendered.username),
                                password |-> Trim(s.rendered.password)],
                     !.fields = NoFields, !.errors = <<>>, !.visible = FALSE]

\* onChangeText of the name, username or password input.
ChangeText ==
  /\ form.visible
  /\ \/ \E text \in NameTexts : form' = [form EXCEPT !.fields.name = text]
     \/ \E text \in NameTexts : form' = [form EXCEPT !.fields.username = text]
     \/ \E text \in PasswordTexts : form' = [form EXCEPT !.fields.password = text]
  /\ UNCHANGED <<pg, bk, ss, gs, lock, ad>>

\* The modal renders again with the state it has.
RenderForm ==
  /\ form.visible
  /\ form.rendered # form.fields
  /\ form' = [form EXCEPT !.rendered = form.fields]
  /\ UNCHANGED <<pg, bk, ss, gs, lock, ad>>

\* The save button.
HandleSave ==
  /\ form.visible
  /\ form' = handleSave(form)
  /\ UNCHANGED <<pg, bk, ss, gs, lock, ad>>

\* The close button: resetForm() and onClose().
HandleClose ==
  /\ form.visible
  /\ form' = [form EXCEPT !.fields = NoFields, !.errors = <<>>, !.visible = FALSE]
  /\ UNCHANGED <<pg, bk, ss, gs, lock, ad>>

Init == pg = PgIdle /\ bk = BkIdle /\ ss = SsIdle /\ gs = GsIdle
        /\ lock = LockIdle /\ ad = AdIdle /\ form = FormIdle

InitGen == Init

NextGen ==
  \/ CallGenerate
  \/ CallCalculateEntropy
  \/ CallEstimateStrength
  \/ CallGenerateDefault
  \/ CallShuffleString

SpecGen == InitGen /\ [][NextGen]_vars

InitBackup == Init

NextBackup ==
  \/ CallEncryptBackup
  \/ CallEncryptBackupAgain
  \/ HandleEncryptedBackup
  \/ EditFile
  \/ CallDecryptBackup
  \/ CallValidateBackupPassword
  \/ HandleRestoreBackup
  \/ PressRestore
  \/ PressCancel

SpecBackup == InitBackup /\ [][NextBackup]_vars

InitCalls == Init

NextCalls == NextEncryptBackup \/ NextDecryptBackup \/ NextValidateBackupPassword

SpecCalls == InitCalls /\ [][NextCalls]_vars

InitScreen == Init

NextScreen ==
  \/ ToggleOption
  \/ HandleLengthChange
  \/ RenderGenerator
  \/ GeneratePassword

SpecScreen == InitScreen /\ [][NextScreen]_vars

InitLock == Init

NextLock ==
  \/ LoadPinSetting
  \/ HandlePinChange
  \/ ToggleHint
  \/ HandleSubmit
  \/ RenderLock
  \/ UnlockTimer
  \/ ErrorTimer

SpecLock == InitLock /\ [][NextLock]_vars

InitAds == Init

NextAds ==
  \/ LoadInterstitial
  \/ ShowInterstitial
  \/ ShowResolved
  \/ ShowRejected
  \/ AdLoaded
  \/ AdClosed
  \/ AdError
  \/ Tick

SpecAds == InitAds /\ [][NextAds]_vars

InitForm == Init

NextForm ==
  \/ ChangeText
  \/ RenderForm
  \/ HandleSave
  \/ HandleClose

SpecForm == InitForm /\ [][NextForm]_vars

(***************************************************************************)
(* Claims about PasswordGeneratorService, checked under SpecGen.           *)
(***************************************************************************)
NumEnabled(options) == Len(EnabledClasses(options))

HasCharOf(str, class) == \E i \in 1..Len(str) : str[i] \in Range(CHAR_SETS[class])

\* C1: with at least one class enabled and length >= the number of enabled
\* classes, generate returns a string of exactly options.length characters
\* that has a character of every enabled class and none of a disabled class,
\* whatever the random values are.
C1_GenerateContract ==
  (/\ pg.op = "generate"
   /\ NumEnabled(pg.options) >= 1
   /\ pg.options.length >= NumEnabled(pg.options))
  => /\ pg.out.tag = "return"
     /\ Len(pg.out.str) = pg.options.length
     /\ \A class \in Range(ClassOrder) :
          Included(pg.options, class) <=> HasCharOf(pg.out.str, class)

\* A generate of four characters with two classes enabled: two required
\* characters and two drawn from the pool, shuffled so that a pool character
\* ('s') comes first.
C1_Witness ==
  /\ pg.op = "generate"
  /\ pg.options = [length |-> 4, includeUppercase |-> FALSE, includeLowercase |-> TRUE,
                   includeNumbers |-> TRUE, includeSymbols |-> FALSE]
  /\ pg.out.tag = "return"
  /\ pg.out.str[1] = 115
  /\ pg.out.str[2] \in 48..57

\* C5: generate fails with the no-character-type error, returning nothing,
\* exactly when all four include flags are false, whatever options.length is.
C5_InvalidOptionsIff ==
  pg.op = "generate"
  => /\ pg.out.tag \in {"throw", "return"}
     /\ (pg.out.tag = "throw") <=> (NumEnabled(pg.options) = 0)
     /\ pg.out.tag = "throw"
          => /\ pg.out.error = "At least one character type must be selected"
             /\ pg.out.str = <<>>

\* generate failed although a positive length was asked for.
C5_Witness ==
  /\ pg.op = "generate"
  /\ pg.options.length = MaxLen
  /\ NumEnabled(pg.options) = 0
  /\ pg.out.tag = "throw"

\* The tiers of the claim, on an entropy in units of 1/Scale bit.
TierOfEntropy(e) ==
  CASE e < 28 * Scale                    -> "weak"
    [] 28 * Scale <= e /\ e < 36 * Scale -> "fair"
    [] 36 * Scale <= e /\ e < 60 * Scale -> "good"
    [] 60 * Scale <= e                   -> "strong"

\* C8: estimateStrength(password) is the tier of the password's entropy
\* alone: weak below 28 bits, fair from 28 to below 36, good from 36 to
\* below 60, strong from 60 on (below 80 as well as from 80 on); an entropy
\* of 27.99 is weak, of 28.0 fair, of 80.0 strong.
C8_StrengthTiers ==
  /\ pg.op = "estimateStrength"
       => pg.strength = TierOfEntropy(calculateEntropy(pg.password))
  /\ StrengthOfEntropy(27990000) = "weak"
  /\ StrengthOfEntropy(28 * Scale) = "fair"
  /\ StrengthOfEntropy(80 * Scale) = "strong"

\* Twelve symbols have exactly 60 bits, thirteen lowercase letters between
\* 60 and 80: both are strong.
C8_Witness ==
  /\ pg.op = "estimateStrength"
  /\ pg.strength = "strong"
  /\ calculateEntropy(pg.password) >= 60 * Scale
  /\ calculateEntropy(pg.password) < 80 * Scale
  /\ Len(pg.password) = 13

IsLowercaseLetter(c) == c \in Range(Codes(97, 26))

IsUppercaseLetter(c) == c \in Range(Codes(65, 26))

IsDigitChar(c) == c \in Range(Codes(48, 10))

\* The pool size of the claim: 26, 26, 10 and 32 for the classes observed.
ObservedPool(password) ==
  LET Seen(P(_)) == \E i \in 1..Len(password) : P(password[i])
      NonAlnum(c) == ~IsLowercaseLetter(c) /\ ~IsUppercaseLetter(c) /\ ~IsDigitChar(c)
  IN    (IF Seen(IsLowercaseLetter) THEN 26 ELSE 0)
      + (IF Seen(IsUppercaseLetter) THEN 26 ELSE 0)
      + (IF Seen(IsDigitChar) THEN 10 ELSE 0)
      + (IF Seen(NonAlnum) THEN 32 ELSE 0)

\* C9: calculateEntropy is 0 for the empty password and otherwise
\* length * log2(poolSize), poolSize the sum of 26, 26, 10 and 32 over the
\* classes observed; "aaaa" gives 4 * log2(26) and "Aa1!" 4 * log2(94).
C9_EntropyFormula ==
  pg.op = "calculateEntropy"
  => /\ pg.password = <<>> => pg.entropy = 0
     /\ pg.password # <<>>
          => pg.entropy = Len(pg.password) * Log2Scaled(ObservedPool(pg.password))
     /\ pg.password = <<97, 97, 97, 97>> => pg.entropy = 4 * Log2Scaled(26)
     /\ pg.password = <<65, 97, 49, 33>> => pg.entropy = 4 * Log2Scaled(94)

\* calculateEntropy("Aa1!")
C9_Witness ==
  /\ pg.op = "calculateEntropy"
  /\ pg.password = <<65, 97, 49, 33>>
  /\ pg.entropy = 4 * 6554588

\* C17: every password generate returns for the default options (length 16,
\* the four classes enabled) has 16 characters, a computed pool of 94 and so
\* an entropy of 16 * log2(94), and estimateStrength calls it strong.
C17_DefaultIsStrong ==
  pg.op = "generateDefault"
  => /\ pg.out.tag = "return"
     /\ Len(pg.out.str) = 16
     /\ pg.password = pg.out.str
     /\ ObservedPool(pg.password) = 94
     /\ pg.entropy = 16 * 6554588
     /\ pg.entropy >= 80 * Scale
     /\ pg.strength = "strong"

\* A default password whose third character is a symbol and whose last is a
\* lowercase letter.
C17_Witness ==
  /\ pg.op = "generateDefault"
  /\ pg.strength = "strong"
  /\ pg.out.str[3] \in Range(SymbolCodes)
  /\ pg.out.str[16] \in 97..122

\* C18, as claimed: generate returns exactly options.length characters, or
\* fewer only when options.length is smaller than the number of enabled
\* classes, and never more than options.length.
C18_NeverLonger ==
  (pg.op = "generate" /\ pg.out.tag = "return")
  => /\ Len(pg.out.str) <= pg.options.length
     /\ Len(pg.out.str) < pg.options.length
          => pg.options.length < NumEnabled(pg.options)

\* C18, amended: generate returns as many characters as the larger of
\* options.length and the number of enabled classes: exactly options.length
\* when that is at least the number of enabled classes, and otherwise one
\* character of every enabled class, which is more than options.length.
C18_LengthOrClasses ==
  (pg.op = "generate" /\ pg.out.tag = "return")
  => /\ Len(pg.out.str) = Max(pg.options.length, NumEnabled(pg.options))
     /\ Len(pg.out.str) >= pg.options.length
     /\ pg.options.length < NumEnabled(pg.options)
          => /\ Len(pg.out.str) = NumEnabled(pg.options)
             /\ \A class \in Range(ClassOrder) :
                  Included(pg.options, class) <=> HasCharOf(pg.out.str, class)

\* generate returned four characters for a length of 2 with the four classes.
C18_Witness ==
  /\ pg.op = "generate"
  /\ pg.options.length = 2
  /\ NumEnabled(pg.options) = 4
  /\ pg.out.tag = "return"
  /\ Len(pg.out.str) = 4

\* The pool sizes calculateEntropy gives the enabled classes, added up.
EnabledPoolSize(options) ==
    (IF options.includeLowercase THEN ENTROPY_CONSTANTS.poolSizes.lowercase ELSE 0)
  + (IF options.includeUppercase THEN ENTROPY_CONSTANTS.poolSizes.uppercase ELSE 0)
  + (IF options.includeNumbers THEN ENTROPY_CONSTANTS.poolSizes.numbers ELSE 0)
  + (IF options.includeSymbols THEN ENTROPY_CONSTANTS.poolSizes.symbols ELSE 0)

\* C19: every character generate returns is one of the concatenation of the
\* alphabets of the enabled classes, which are 26 uppercase letters, 26
\* lowercase letters, 10 digits and 32 symbols: the alphabet of each class
\* has the size calculateEntropy gives the class.
C19_AlphabetSizes ==
  (pg.op \in {"generate", "generateDefault"} /\ pg.out.tag = "return")
  => /\ \A i \in 1..Len(pg.out.str) : pg.out.str[i] \in Range(CharPool(pg.options))
     /\ Len(CharPool(pg.options)) = EnabledPoolSize(pg.options)
     /\ \A class \in Range(ClassOrder) :
          Included(pg.options, class)
            => Len(CHAR_SETS[class]) = ENTROPY_CONSTANTS.poolSizes[class]
     /\ pg.options.includeSymbols => Cardinality(Range(CHAR_SETS.symbols)) = 32

CountOf(str, c) == Cardinality({i \in 1..Len(str) : str[i] = c})

\* The strings that have the characters of str in another order.
Arrangements(str) ==
  {[i \in 1..Len(str) |-> str[p[i]]] : p \in Permutations(1..Len(str))}

\* C20: shuffleString returns a string of the same length with the same
\* characters as often, and every order of the characters of its input is
\* returned for some draws; with the random values of the model, the
\* shuffle of generate is this loop.
C20_ShufflePermutes ==
  pg.op = "shuffleString"
  => /\ Len(pg.out.str) = Len(pg.password)
     /\ \A c \in Range(pg.password) \cup Range(pg.out.str) :
          CountOf(pg.out.str, c) = CountOf(pg.password, c)
     /\ {shuffleStringAt(pg.password, js) : js \in IndexDraws(Len(pg.password))}
          = Arrangements(pg.password)
     /\ \A rs \in [1..Max(Len(pg.password) - 1, 0) -> 0..(RandDenom - 1)] :
          shuffleString(pg.password, rs)
            = shuffleStringAt(pg.password,
                [k \in 1..Max(Len(pg.password) - 1, 0) |->
                   RandomIndex(rs[k], Len(pg.password) - k + 1)])

\* 'abcd' was shuffled to 'dcba': the first character is the last one.
C20_Witness ==
  /\ pg.op = "shuffleString"
  /\ pg.password = <<97, 98, 99, 100>>
  /\ pg.out.str = <<100, 99, 98, 97>>

\* The characters of str that belong to the alphabet of class.
CountOfClass(str, class) ==
  Cardinality({i \in 1..Len(str) : str[i] \in Range(CHAR_SETS[class])})

\* C21: when options.length is smaller than the number n of enabled classes
\* (0 and negative lengths included), generate neither fails nor cuts its
\* result: it returns exactly n characters, one of each enabled class, which
\* is more than the length asked for.
C21_ShortLengthGivesOnePerClass ==
  (/\ pg.op = "generate"
   /\ NumEnabled(pg.options) >= 1
   /\ pg.options.length < NumEnabled(pg.options))
  => /\ pg.out.tag = "return"
     /\ Len(pg.out.str) = NumEnabled(pg.options)
     /\ Len(pg.out.str) > pg.options.length
     /\ \A class \in Range(ClassOrder) :
          CountOfClass(pg.out.str, class) = (IF Included(pg.options, class) THEN 1 ELSE 0)

\* generate returned three characters, a digit first, for a length of -1
\* with three classes enabled.
C21_Witness ==
  /\ pg.op = "generate"
  /\ pg.options = [length |-> -1, includeUppercase |-> TRUE, includeLowercase |-> TRUE,
                   includeNumbers |-> TRUE, includeSymbols |-> FALSE]
  /\ pg.out.tag = "return"
  /\ Len(pg.out.str) = 3
  /\ pg.out.str[1] \in 48..57

\* C23: in every non-empty password one of the four class tests of
\* calculateEntropy matches, so that poolSize is at least 10, the value 1
\* that stands in for a poolSize of 0 is never used, and the entropy is
\* greater than 0.
C23_PoolNeverEmpty ==
  (pg.op = "calculateEntropy" /\ pg.password # <<>>)
  => /\ \/ TestLower(pg.password)
        \/ TestUpper(pg.password)
        \/ TestDigit(pg.password)
        \/ TestOther(pg.password)
     /\ PoolSize(pg.password) >= 10
     /\ PoolSize(pg.password) # 0
     /\ pg.entropy >= Len(pg.password) * Log2Scaled(10)
     /\ pg.entropy > 0

\* calculateEntropy of a single space: only the fourth test matches.
C23_Witness ==
  /\ pg.op = "calculateEntropy"
  /\ pg.password = <<32>>
  /\ pg.entropy = Log2Scaled(32)

(***************************************************************************)
(* Claims about GeneratorScreen, checked under SpecScreen.                 *)
(***************************************************************************)
\* C26: from the default options, after any toggleOption and
\* handleLengthChange events, however they interleave with the renders of
\* the component, one of the four include flags of options is true, so that
\* generatePassword never gets the no-character-type error of generate.
C26_OneClassAlwaysSelected ==
  /\ \E key \in Range(OPTION_ITEMS) : gs.options[key]
  /\ \E key \in Range(OPTION_ITEMS) : gs.rendered[key]
  /\ gs.alert # "Error"

(***************************************************************************)
(* Claims about the lock of the application, checked under SpecLock.       *)
(***************************************************************************)
\* AppContent renders the vault, generator or settings screen.
ScreensRendered == ~lock.isLoadingPin /\ ~(lock.isLocked /\ lock.storedPin # NoPin)

C28_CooldownEnforced ==
  /\ \A i, j \in 1..Len(ad.trueShows) :
       i < j => ad.trueShows[j] - ad.trueShows[i] >= 30000
                  \/ ad.trueShows[i] - ad.trueShows[j] >= 30000
  /\ (ad.last.result # "none" /\ ad.last.sinceLast < 30000)
       => (ad.last.result = "false" /\ ~ad.last.calledShow)

\* C29: under every interleaving of loadInterstitial and showInterstitial
\* calls with LOADED, CLOSED and ERROR events the load flags stay consistent:
\* isLoaded and isLoading are never both true, interstitial.load() is never
\* called while a load is pending, and from a LOADED event to the next show,
\* CLOSED or ERROR of that ad isLoaded stays true (no assignment of an
\* earlier show clears it).
C29_LoadFlagsConsistent ==
  /\ ~(ad.isLoaded /\ ad.isLoading)
  /\ ~ad.loadedWhilePending
  /\ ad.adReady => ad.isLoaded

(***************************************************************************)
(* Claims about AddAccountModal, checked under SpecForm.                   *)
(***************************************************************************)
\* C30: every account handleSave passes to onSave has a name and a username
\* that are not empty and a password of at least 8 characters, whatever the
\* fields hold (white space at their ends included), and onSave is not
\* called when the validation fails.
C30_SavedAccountIsValid ==
  /\ form.saveCalls > 0
       => /\ form.saved.name # <<>>
          /\ form.saved.username # <<>>
          /\ Len(form.saved.password) >= 8
  /\ form.validated = "failed" => form.saveCalls = 0

(***************************************************************************)
(* Claims about CryptoService and the restore flow, checked under          *)
(* SpecBackup.                                                             *)
(***************************************************************************)
\* decryptBackup was handed the envelope encryptBackup returned.
DecryptedOwnEnvelope == bk.op = "decryptBackup" /\ ~bk.edited

\* C2: for every JSON text p (no JSON text is empty) and passphrase k,
\* decryptBackup(encryptBackup(p, k), k) returns p, whatever salt and IV
\* encryptBackup draws.
C2_RoundTrip ==
  (DecryptedOwnEnvelope /\ bk.arg = bk.password /\ bk.data # <<>>)
  => (bk.out.tag = "return" /\ bk.out.str = bk.data)

\* C3: for all p and all k1 # k2, decryptBackup(encryptBackup(p, k1), k2)
\* fails with the decryption error and returns no string.
C3_WrongPassphraseFails ==
  (DecryptedOwnEnvelope /\ bk.arg # bk.password)
  => (bk.out.tag = "throw" /\ bk.out.error = DecryptError)

\* C4: validateBackupPassword(e, k) never throws, and returns true exactly
\* when decryptBackup(e, k) returns.
C4_ValidateIffDecrypts ==
  bk.op = "validateBackupPassword"
  => /\ bk.valid.tag = "return"
     /\ bk.valid.value <=> (decryptBackup(bk.envelope, bk.arg).tag = "return")

\* validateBackupPassword returned false for an envelope without a salt.
C4_Witness ==
  /\ bk.op = "validateBackupPassword"
  /\ "salt" \notin DOMAIN bk.envelope
  /\ bk.valid.tag = "return"
  /\ ~bk.valid.value

\* Two encryptBackup calls were made with the same data and password.
EncryptedTwice == bk.op = "encryptBackupAgain"

\* C6, as claimed: two envelopes of two encryptBackup calls with the same
\* (p, k) differ in data, in iv and in salt.
C6_EnvelopesAlwaysDiffer ==
  EncryptedTwice
  => /\ bk.envelope.data # bk.first.data
     /\ bk.envelope.iv # bk.first.iv
     /\ bk.envelope.salt # bk.first.salt

\* C6, amended: the two envelopes differ in salt (in iv) exactly when the
\* bytes drawn for the salt (the IV) differ; with the same salt and a
\* different iv the data differ; with the same draws the envelopes are the
\* same.
C6_EnvelopesDifferWithDraws ==
  EncryptedTwice
  => /\ (bk.envelope.salt # bk.first.salt) <=> (bk.saltBytes # bk.firstSaltBytes)
     /\ (bk.envelope.iv # bk.first.iv) <=> (bk.ivBytes # bk.firstIvBytes)
     /\ (bk.envelope.salt = bk.first.salt /\ bk.envelope.iv # bk.first.iv)
          => bk.envelope.data # bk.first.data
     /\ (bk.saltBytes = bk.firstSaltBytes /\ bk.ivBytes = bk.firstIvBytes)
          => bk.envelope = bk.first

\* Two calls that drew the same salt and different IVs.
C6_Witness ==
  /\ EncryptedTwice
  /\ bk.saltBytes = bk.firstSaltBytes
  /\ bk.ivBytes # bk.firstIvBytes
  /\ bk.envelope.data # bk.first.data

IsLowerHex(str, n) ==
  /\ Len(str) = n
  /\ \A i \in 1..Len(str) : str[i] \in (48..57) \cup (97..102)

\* C7: an envelope returned by encryptBackup has exactly the fields data, iv,
\* salt and version, version is '1.0', and iv and salt are 32 lowercase
\* hexadecimal characters each, the sixteen bytes drawn.
C7_EnvelopeShape ==
  bk.op \in {"encryptBackup", "encryptBackupAgain"}
  => /\ DOMAIN bk.envelope = {"data", "iv", "salt", "version"}
     /\ bk.envelope.version = <<49, 46, 48>>
     /\ IsLowerHex(bk.envelope.iv, 32)
     /\ IsLowerHex(bk.envelope.salt, 32)
     /\ HexParse(bk.envelope.iv) = bk.ivBytes
     /\ HexParse(bk.envelope.salt) = bk.saltBytes

\* An envelope whose salt bytes are all 0 and whose IV has bytes from 16 on.
C7_Witness ==
  /\ bk.op = "encryptBackup"
  /\ bk.saltBytes = [i \in 1..16 |-> 0]
  /\ bk.ivBytes = [i \in 1..16 |-> 255]
  /\ bk.envelope.iv = [i \in 1..32 |-> 102]

\* handleRestoreBackup ran past its input check and could read the file as
\* JSON.
RestoredReadableFile ==
  /\ bk.op = "restore"
  /\ ss.handled
  /\ ss.backupFilePath
  /\ Len(ss.decryptPassword) >= 4
  /\ bk.readable
  /\ bk.json

\* One of the four fields is missing from the envelope, or is the empty
\* string.
MissingOrEmptyField(e) ==
  \E f \in {"data", "iv", "salt", "version"} : f \notin DOMAIN e \/ e[f] = <<>>

VersionNotSupported(e) == "version" \in DOMAIN e /\ e.version # <<49, 46, 48>>

\* C11: an envelope whose version is present and is not '1.0' is rejected:
\* decryptBackup does not return its text, and the restore flow neither
\* decrypts it nor writes accounts to storage.
C11_UnsupportedVersionRejected ==
  /\ (bk.op = "decryptBackup" /\ VersionNotSupported(bk.envelope))
       => bk.out.tag = "throw"
  /\ (bk.op = "restore" /\ VersionNotSupported(bk.envelope))
       => (~ss.decryptCalled /\ ss.accounts = <<"old">>)

\* C12: every failure of decryptBackup throws the same error, with the same
\* message and nothing else, whatever made it fail.
C12_OneDecryptError ==
  (bk.op = "decryptBackup" /\ bk.out.tag # "return")
  => [f \in {"tag", "error", "str"} |-> bk.out[f]]
       = [tag |-> "throw", str |-> <<>>,
          error |-> "Failed to decrypt backup. Please check your password."]

\* decryptBackup failed with the right passphrase on the envelope of the
\* empty text: the error caught was the one of the empty check.
C12_Witness ==
  /\ DecryptedOwnEnvelope
  /\ bk.arg = bk.password
  /\ bk.data = <<>>
  /\ bk.out.tag = "throw"
  /\ bk.out.console[2] = "Decryption failed - invalid password or corrupted data"

\* handleEncryptedBackup built a payload and handed it to encryptBackup.
BackupMade == bk.op \in {"backupWritten", "noBackup"} /\ bk.made

\* C13: the payload handleEncryptedBackup hands to encryptBackup has a count
\* equal to the number of its accounts, which are the accounts in storage;
\* the text encrypted is the JSON of that payload.
C13_CountIsNumberOfAccounts ==
  BackupMade
  => /\ bk.backupData.count = Len(bk.backupData.accounts)
     /\ bk.backupData.accounts = ss.accounts
     /\ bk.data = JsonStringifyBackup(bk.backupData)
     /\ JsonParseBackup(bk.data).count = Len(JsonParseBackup(bk.data).accounts)

\* A backup of two accounts was written.
C13_Witness ==
  /\ bk.op = "backupWritten"
  /\ bk.made
  /\ ss.accounts = <<"a2", "a1">>
  /\ bk.backupData.count = 2
  /\ ss.alert = "Backup Complete"

\* C14: when the decrypted payload has a count other than the number of its
\* accounts, the restore flow writes nothing to storage.
C14_CountMismatchNotWritten ==
  (/\ bk.op = "restore"
   /\ ss.decryptCalled
   /\ ss.pendingCount >= 0
   /\ ss.pendingCount # Len(ss.pending))
  => ss.accounts = <<"old">>

\* C16: decryptBackup and validateBackupPassword write nothing to the
\* console, on their failing paths as on the others.
C16_NoLogOutput ==
  /\ bk.op = "decryptBackup" => bk.out.console = <<>>
  /\ bk.op = "validateBackupPassword" => bk.valid.console = <<>>

\* The text the bytes decrypted from envelope e with the key of password
\* decode to.
DecodedText(e, password) ==
  Utf8Stringify(AesDecrypt(e.data, PBKDF2(password, e.salt), HexParse(e.iv)))

\* C22: decryptBackup never returns the empty string: whenever the decrypted
\* bytes decode to an empty or an invalid text it fails with the one decrypt
\* error, also for the envelope encryptBackup made of the empty text, opened
\* with the same passphrase.
C22_NeverReturnsEmpty ==
  bk.op = "decryptBackup"
  => /\ bk.out.tag \in {"return", "throw"}
     /\ bk.out.tag = "return" => bk.out.str # <<>>
     /\ bk.out.tag = "throw" => bk.out.error = DecryptError /\ bk.out.str = <<>>
     /\ ({"salt", "iv", "data"} \subseteq DOMAIN bk.envelope
           /\ (~DecodedText(bk.envelope, bk.arg).ok \/ DecodedText(bk.envelope, bk.arg).str = <<>>))
          => bk.out.tag = "throw"
     /\ (bk.data = <<>> /\ ~bk.edited /\ bk.arg = bk.password) => bk.out.tag = "throw"

\* The envelope of the empty text was opened with its own passphrase: the
\* bytes decode, to the empty text, and decryptBackup fails.
C22_Witness ==
  /\ bk.op = "decryptBackup"
  /\ bk.data = <<>>
  /\ ~bk.edited
  /\ bk.arg = bk.password
  /\ DecodedText(bk.envelope, bk.arg) = [ok |-> TRUE, str |-> <<>>]
  /\ bk.out.tag = "throw"

\* The confirmation is on the screen only if the file read had the four
\* fields, decryptBackup returned, and the text it returned is JSON with an
\* array accounts, which is what Restore would store.
ConfirmationEarned ==
  ss.confirm
  => /\ ss.handled /\ bk.readable /\ bk.json
     /\ \A f \in EnvelopeFields : f \in DOMAIN bk.envelope /\ bk.envelope[f] # <<>>
     /\ ss.decryptCalled
     /\ LET r == decryptBackup(bk.envelope, ss.decryptPassword)
        IN  /\ r.tag = "return"
            /\ JsonParseBackup(r.str).ok
            /\ JsonParseBackup(r.str).hasAccounts
            /\ ss.pending = JsonParseBackup(r.str).accounts

\* What a step may do to the stored accounts: handleRestoreBackup itself
\* leaves them alone on all of its paths, and once it has run they are
\* written only by Restore pressed in the confirmation, which stores the
\* accounts of the backup; Cancel stores nothing.
StoredOnlyByRestore ==
  /\ (~ss.handled /\ ss'.handled)
       => (ss'.accounts = ss.accounts /\ ss'.overwrites = ss.overwrites)
  /\ (ss.handled /\ (ss'.accounts # ss.accounts \/ ss'.overwrites # ss.overwrites))
       => /\ ss.confirm /\ ~ss'.confirm
          /\ ss'.alert = "Success"
          /\ ss'.accounts = ss.pending
          /\ ss'.overwrites = ss.overwrites + 1

\* C24: handleRestoreBackup overwrites the stored accounts only after the
\* envelope had its four fields, decryptBackup succeeded, the decrypted JSON
\* had an array accounts and the user pressed Restore in the confirmation;
\* on every other path (no file or a short password, an invalid file, a
\* failed decryption, an invalid payload, Cancel) they are unchanged.
C24_OverwriteOnlyAfterConfirm ==
  /\ [](ConfirmationEarned)
  /\ [](ss.overwrites = 0 => (ss.handled => ss.alert # "Success"))
  /\ [][StoredOnlyByRestore]_vars

\* The accounts of a backup replaced the stored ones.
C24_Witness ==
  /\ ss.handled
  /\ ss.overwrites = 1
  /\ ss.alert = "Success"
  /\ ss.accounts = <<>>
  /\ ss.decryptCalled

\* C25: isDecrypting is true only while a restore is in progress: when
\* handleRestoreBackup has finished, on any of its paths (invalid file, read
\* or JSON error, failed decryption, invalid payload, success), it is false
\* again.
C25_NotDecryptingWhenFinished ==
  ss.handled => ~ss.isDecrypting

====
